---- MODULE Spec2Model ----
(***************************************************************************)
(* Sprint analytics of the Jira MCP server (src/server.py): the analyzers  *)
(* analyze_sprint_commitment, analyze_velocity_trend,                      *)
(* analyze_priority_focus, analyze_team_workload and                       *)
(* sprint_health_dashboard, each modelled as one action that runs the      *)
(* whole tool call over a snapshot held by the issue tracker.              *)
(*                                                                         *)
(* Numbers.  Story points are naturals.  Every Python float the code       *)
(* computes is kept as an exact fraction [num, den] with den > 0; a        *)
(* comparison with a threshold is a cross-multiplication and round(x, 1)   *)
(* is round-half-even to tenths (RoundTenths).  For totals below 80 the    *)
(* float computation and the exact one agree on every threshold test and   *)
(* on every rounded value (the first rounded rate that differs is 23 of    *)
(* 80; the first 70 % test that differs is 63 of 90).                      *)
(*                                                                         *)
(* Labels that no computation reads (summary, status name, sprint name and *)
(* state, end date) are left out of the records; a recommendation is the   *)
(* fixed head of its message.                                              *)
(***************************************************************************)
EXTENDS Integers, Sequences, FiniteSets, TLC

VARIABLES sprint_issues, backlog_issues, board, request, result, calls

vars == <<sprint_issues, backlog_issues, board, request, result, calls>>

(***************************************************************************)
(* Bounds of the model.                                                    *)
(***************************************************************************)
MaxIssues == 2
MaxPoints == 4
MaxBacklog == 1
MaxSprints == 3
MaxRun == 13
MaxConcurrentIssues == 2

(***************************************************************************)
(* Optional values of the tracker: None is Python's None (an absent        *)
(* priority, assignee, story-point field or start date).                   *)
(***************************************************************************)
None == <<>>

Some(v) == <<v>>

(***************************************************************************)
(* Sequence helpers standing for Python built-ins.                         *)
(***************************************************************************)
RECURSIVE SumSeq(_)
SumSeq(s) == IF s = <<>> THEN 0 ELSE Head(s) + SumSeq(Tail(s))

\* s[:n] of Python, negative n included
SliceTo(s, n) ==
    LET stop == IF n < 0
                THEN (IF Len(s) + n < 0 THEN 0 ELSE Len(s) + n)
                ELSE (IF n > Len(s) THEN Len(s) ELSE n)
    IN SubSeq(s, 1, stop)

\* s[-n:] of Python for n > 0
SliceLast(s, n) == IF n >= Len(s) THEN s ELSE SubSeq(s, Len(s) - n + 1, Len(s))

(***************************************************************************)
(* Exact fractions for the floats of the code.                             *)
(***************************************************************************)
Frac(n, d) == [num |-> n, den |-> d]

FracGE(x, k) == x.num >= k * x.den

FracLT(x, k) == x.num < k * x.den

FracGT(x, y) == x.num * y.den > y.num * x.den

\* round(x, 1), in tenths: round half to even
RoundTenths(x) ==
    LET n == x.num * 10
        q == n \div x.den
        r == n % x.den
    IN IF 2 * r > x.den THEN q + 1
       ELSE IF 2 * r < x.den THEN q
       ELSE IF q % 2 = 0 THEN q ELSE q + 1

\* mutant of Percentage: an empty total counts as fully complete
PercentageEmptyIsComplete(part, whole) ==
    IF whole > 0 THEN Frac(part * 100, whole) ELSE Frac(100, 1)

\* (part / whole * 100) if whole > 0 else 0
Percentage(part, whole) == IF whole > 0 THEN Frac(part * 100, whole) ELSE Frac(0, 1)

(***************************************************************************)
(* Normalisation of one raw issue, as every analyzer's loop does it.       *)
(***************************************************************************)
DoneCategories == {"Done", "Complete"}

InProgressCategories == {"In Progress", "In Development"}

\* getattr(issue.fields, 'customfield_10016', 0) or 0
StoryPointsOf(issue) ==
    IF issue.story_points = None THEN 0 ELSE issue.story_points[1]

\* issue.fields.assignee.displayName if issue.fields.assignee else 'Unassigned'
AssigneeOf(issue) ==
    IF issue.assignee = None THEN "Unassigned" ELSE issue.assignee[1]

\* issue.fields.priority.name if issue.fields.priority else 'No Priority'
PriorityOf(issue) ==
    IF issue.priority = None THEN "No Priority" ELSE issue.priority[1]

(***************************************************************************)
(* analyze_sprint_commitment                                               *)
(***************************************************************************)
CommitmentZero ==
    [total_committed_points |-> 0, completed_points |-> 0,
     in_progress_points |-> 0, todo_points |-> 0,
     completed_issues |-> 0, in_progress_issues |-> 0, todo_issues |-> 0,
     issues_with_points |-> 0]

\* mutant of CommitmentStep: the points of a todo issue are not added to
\* todo_points
CommitmentStepDropsTodoPoints(acc, issue) ==
    LET story_points == StoryPointsOf(issue)
        status_category == issue.status_category
        a1 == IF status_category \in DoneCategories
              THEN [acc EXCEPT !.completed_issues = @ + 1,
                               !.completed_points = @ + story_points]
              ELSE IF status_category \in InProgressCategories
              THEN [acc EXCEPT !.in_progress_issues = @ + 1,
                               !.in_progress_points = @ + story_points]
              ELSE [acc EXCEPT !.todo_issues = @ + 1]
    IN IF story_points # 0
       THEN [a1 EXCEPT !.issues_with_points = @ + 1,
                       !.total_committed_points = @ + story_points]
       ELSE a1

CommitmentStep(acc, issue) ==
    LET story_points == StoryPointsOf(issue)
        status_category == issue.status_category
        a1 == IF status_category \in DoneCategories
              THEN [acc EXCEPT !.completed_issues = @ + 1,
                               !.completed_points =
                                   IF story_points # 0 THEN @ + story_points ELSE @]
              ELSE IF status_category \in InProgressCategories
              THEN [acc EXCEPT !.in_progress_issues = @ + 1,
                               !.in_progress_points =
                                   IF story_points # 0 THEN @ + story_points ELSE @]
              ELSE [acc EXCEPT !.todo_issues = @ + 1,
                               !.todo_points =
                                   IF story_points # 0 THEN @ + story_points ELSE @]
    IN IF story_points # 0
       THEN [a1 EXCEPT !.issues_with_points = @ + 1,
                       !.total_committed_points = @ + story_points]
       ELSE a1

RECURSIVE CommitmentLoop(_, _)
CommitmentLoop(acc, issues) ==
    IF issues = <<>> THEN acc
    ELSE CommitmentLoop(CommitmentStep(acc, Head(issues)), Tail(issues))

\* mutant of CommitmentStatus: the bound of OVERCOMMITTED is exclusive
CommitmentStatusExclusive40(rate) ==
    IF FracGE(rate, 80) THEN "ON_TRACK"
    ELSE IF FracGE(rate, 60) THEN "AT_RISK"
    ELSE IF rate.num > 40 * rate.den THEN "OVERCOMMITTED"
    ELSE "SEVERELY_OVERCOMMITTED"

CommitmentStatus(rate) ==
    IF FracGE(rate, 80) THEN "ON_TRACK"
    ELSE IF FracGE(rate, 60) THEN "AT_RISK"
    ELSE IF FracGE(rate, 40) THEN "OVERCOMMITTED"
    ELSE "SEVERELY_OVERCOMMITTED"

\* LOW only above 70 percent
SprintRiskLevelAbove70(rate) ==
    IF rate.num > 70 * rate.den THEN "LOW"
    ELSE IF FracGE(rate, 50) THEN "MEDIUM"
    ELSE "HIGH"

SprintRiskLevel(rate) ==
    IF FracGE(rate, 70) THEN "LOW"
    ELSE IF FracGE(rate, 50) THEN "MEDIUM"
    ELSE "HIGH"

\* mutant of UsesStoryPoints: >= in place of >
UsesStoryPointsAlways(acc) == acc.issues_with_points >= 0

UsesStoryPoints(acc) == acc.issues_with_points > 0

CommitmentRecommendations(commitment_status, work_remaining, work_in_progress) ==
    (IF commitment_status = "SEVERELY_OVERCOMMITTED"
     THEN <<"URGENT: Sprint is severely overcommitted",
            "Focus only on highest priority items">>
     ELSE IF commitment_status = "OVERCOMMITTED"
     THEN <<"Sprint is overcommitted", "Identify blockers">>
     ELSE IF commitment_status = "AT_RISK"
     THEN <<"Sprint delivery is at risk", "Consider deferring any new work">>
     ELSE <<"Sprint is on track">>)
    \o (IF work_remaining > work_in_progress /\ commitment_status # "ON_TRACK"
        THEN <<"High risk: work not yet started">>
        ELSE <<>>)

\* the remaining work counted in issues whatever the primary metric is
RemainingWorkInIssues(uses_story_points, acc, total_issues) ==
    total_issues - acc.completed_issues

RemainingWork(uses_story_points, acc, total_issues) ==
    IF uses_story_points
    THEN acc.total_committed_points - acc.completed_points
    ELSE total_issues - acc.completed_issues

\* everything after the loop: rates, status and the output dictionary
CommitmentResult(acc, issues) ==
    LET total_issues == Len(issues)
        story_point_completion_rate ==
            Percentage(acc.completed_points, acc.total_committed_points)
        issue_completion_rate == Percentage(acc.completed_issues, total_issues)
        uses_story_points == UsesStoryPoints(acc)
        primary_completion_rate ==
            IF uses_story_points THEN story_point_completion_rate
            ELSE issue_completion_rate
        remaining_work == RemainingWork(uses_story_points, acc, total_issues)
        work_in_progress ==
            IF uses_story_points THEN acc.in_progress_points
            ELSE acc.in_progress_issues
        work_remaining == remaining_work - work_in_progress
        commitment_status == CommitmentStatus(primary_completion_rate)
    IN [tool |-> "analyze_sprint_commitment",
        outcome |-> "ok",
        commitment_analysis |->
            [status |-> commitment_status,
             is_overcommitted |->
                 commitment_status \in {"OVERCOMMITTED", "SEVERELY_OVERCOMMITTED"},
             completion_rate |-> RoundTenths(primary_completion_rate),
             remaining_work |-> remaining_work,
             work_in_progress |-> work_in_progress,
             work_not_started |-> work_remaining],
        velocity_metrics |->
            [uses_story_points |-> uses_story_points,
             story_points |->
                 [total_committed |-> acc.total_committed_points,
                  completed |-> acc.completed_points,
                  in_progress |-> acc.in_progress_points,
                  todo |-> acc.todo_points,
                  completion_rate |-> RoundTenths(story_point_completion_rate)],
             issue_throughput |->
                 [total_committed |-> total_issues,
                  completed |-> acc.completed_issues,
                  in_progress |-> acc.in_progress_issues,
                  todo |-> acc.todo_issues,
                  completion_rate |-> RoundTenths(issue_completion_rate)],
             primary_metric |->
                 IF uses_story_points THEN "story_points" ELSE "issue_count"],
        sprint_health |->
            [completion_rate |-> RoundTenths(primary_completion_rate),
             risk_level |-> SprintRiskLevel(primary_completion_rate),
             is_on_track |-> FracGE(primary_completion_rate, 70),
             recommendations |->
                 CommitmentRecommendations(commitment_status, work_remaining,
                                           work_in_progress)]]

SprintCommitment(issues) ==
    CommitmentResult(CommitmentLoop(CommitmentZero, issues), issues)

(***************************************************************************)
(* analyze_velocity_trend                                                  *)
(***************************************************************************)
FracSub(x, y) == Frac(x.num * y.den - y.num * x.den, x.den * y.den)

\* x / y for y > 0
FracDiv(x, y) == Frac(x.num * y.den, x.den * y.num)

FracTimes(x, k) == Frac(x.num * k, x.den)

\* jira_client.sprints(board_id, ...): the board's sprints, each with its id
FetchSprints(b) ==
    [i \in 1..Len(b) |->
        [id |-> i, startDate |-> b[i].startDate, issues |-> b[i].issues]]

\* [s for s in sprints if hasattr(s, 'startDate') and s.startDate]
RECURSIVE DatedSprints(_)
DatedSprints(sprints) ==
    IF sprints = <<>> THEN <<>>
    ELSE IF Head(sprints).startDate # None
         THEN <<Head(sprints)>> \o DatedSprints(Tail(sprints))
         ELSE DatedSprints(Tail(sprints))

\* sorted(..., key=lambda x: x.startDate, reverse=True): stable, so sprints
\* with equal start dates keep the order of the tracker's answer
InsertByStartDate(sorted, sprint) ==
    LET before == Cardinality({i \in 1..Len(sorted) :
                       sorted[i].startDate[1] >= sprint.startDate[1]})
    IN SubSeq(sorted, 1, before) \o <<sprint>>
           \o SubSeq(sorted, before + 1, Len(sorted))

RECURSIVE SortByStartDateDesc(_)
SortByStartDateDesc(sprints) ==
    IF sprints = <<>> THEN <<>>
    ELSE InsertByStartDate(
             SortByStartDateDesc(SubSeq(sprints, 1, Len(sprints) - 1)),
             sprints[Len(sprints)])

TargetSprints(b, sprint_count) ==
    SliceTo(SortByStartDateDesc(DatedSprints(FetchSprints(b))), sprint_count)

VelocityZero ==
    [total_committed_points |-> 0, completed_points |-> 0,
     completed_issues |-> 0, issues_with_points |-> 0]

VelocityStep(acc, issue) ==
    LET story_points == StoryPointsOf(issue)
        status_category == issue.status_category
        a1 == IF story_points # 0
              THEN [acc EXCEPT !.issues_with_points = @ + 1,
                               !.total_committed_points = @ + story_points,
                               !.completed_points =
                                   IF status_category \in DoneCategories
                                   THEN @ + story_points ELSE @]
              ELSE acc
    IN IF status_category \in DoneCategories
       THEN [a1 EXCEPT !.completed_issues = @ + 1]
       ELSE a1

RECURSIVE VelocityLoop(_, _)
VelocityLoop(acc, issues) ==
    IF issues = <<>> THEN acc
    ELSE VelocityLoop(VelocityStep(acc, Head(issues)), Tail(issues))

SprintData(sprint) ==
    LET acc == VelocityLoop(VelocityZero, sprint.issues)
    IN [sprint_id |-> sprint.id,
        start_date |-> sprint.startDate,
        uses_story_points |-> acc.issues_with_points > 0,
        story_points |->
            [committed |-> acc.total_committed_points,
             completed |-> acc.completed_points,
             velocity |-> acc.completed_points],
        issue_throughput |->
            [committed |-> Len(sprint.issues),
             completed |-> acc.completed_issues,
             velocity |-> acc.completed_issues]]

VelocityData(target_sprints) ==
    [i \in 1..Len(target_sprints) |-> SprintData(target_sprints[i])]

\* mutant of UsesPoints: all() in place of any()
UsesPointsAll(velocity_data) ==
    \A i \in 1..Len(velocity_data) : velocity_data[i].uses_story_points

\* any(s['uses_story_points'] for s in velocity_data)
UsesPoints(velocity_data) ==
    \E i \in 1..Len(velocity_data) : velocity_data[i].uses_story_points

RECURSIVE PointVelocities(_)
PointVelocities(velocity_data) ==
    IF velocity_data = <<>> THEN <<>>
    ELSE IF Head(velocity_data).uses_story_points
         THEN <<Head(velocity_data).story_points.velocity>>
                  \o PointVelocities(Tail(velocity_data))
         ELSE PointVelocities(Tail(velocity_data))

CountVelocities(velocity_data) ==
    [i \in 1..Len(velocity_data) |-> velocity_data[i].issue_throughput.velocity]

\* mutant of Velocities: the point velocities are not filtered
VelocitiesUnfiltered(velocity_data) ==
    IF UsesPoints(velocity_data)
    THEN [i \in 1..Len(velocity_data) |-> velocity_data[i].story_points.velocity]
    ELSE CountVelocities(velocity_data)

Velocities(velocity_data) ==
    IF UsesPoints(velocity_data) THEN PointVelocities(velocity_data)
    ELSE CountVelocities(velocity_data)

\* mutant of TrendDirection: the comparison is the wrong way round
TrendDirectionSwapped(recent_avg, older_avg) ==
    IF FracGT(recent_avg, older_avg) THEN "DOWN"
    ELSE IF FracGT(older_avg, recent_avg) THEN "UP"
    ELSE "STABLE"

TrendDirection(recent_avg, older_avg) ==
    IF FracGT(recent_avg, older_avg) THEN "UP"
    ELSE IF FracGT(older_avg, recent_avg) THEN "DOWN"
    ELSE "STABLE"

TrendPercentage(recent_avg, older_avg) ==
    IF older_avg.num > 0
    THEN FracTimes(FracDiv(FracSub(recent_avg, older_avg), older_avg), 100)
    ELSE Frac(0, 1)

\* The trend block.  uses_points is assigned only inside the branch
\* len(velocity_data) >= 2: bound tells whether the name exists afterwards.
TrendAnalysis(velocity_data) ==
    IF Len(velocity_data) >= 2
    THEN LET velocities == Velocities(velocity_data)
             recent_avg == Frac(SumSeq(SliceTo(velocities, 2)), 2)
             older_avg == Frac(SumSeq(SliceLast(velocities, 2)), 2)
         IN [uses_points_bound |-> TRUE,
             uses_points |-> UsesPoints(velocity_data),
             trend_direction |->
                 IF Len(velocities) >= 2
                 THEN TrendDirection(recent_avg, older_avg)
                 ELSE "INSUFFICIENT_DATA",
             trend_percentage |->
                 IF Len(velocities) >= 2
                 THEN TrendPercentage(recent_avg, older_avg)
                 ELSE Frac(0, 1),
             average_velocity |->
                 IF velocities # <<>>
                 THEN Frac(SumSeq(velocities), Len(velocities))
                 ELSE Frac(0, 1)]
    ELSE [uses_points_bound |-> FALSE,
          uses_points |-> FALSE,
          trend_direction |-> "INSUFFICIENT_DATA",
          trend_percentage |-> Frac(0, 1),
          average_velocity |-> Frac(0, 1)]

VelocityRecommendations(trend_direction) ==
    IF trend_direction = "DOWN"
    THEN <<"Velocity is declining", "Consider retrospective">>
    ELSE IF trend_direction = "UP" THEN <<"Velocity is improving">>
    ELSE IF trend_direction = "STABLE" THEN <<"Velocity is stable">>
    ELSE <<"Need more completed sprints for trend analysis">>

(***************************************************************************)
(* The except clause of every analyzer: any exception becomes HTTP 500.    *)
(***************************************************************************)
HTTPError(tool_name) ==
    [tool |-> tool_name, outcome |-> "error", status_code |-> 500]

\* everything after the loop over the sprints of the window
VelocityResult(velocity_data, sprint_count) ==
    LET trend == TrendAnalysis(velocity_data)
    IN IF ~trend.uses_points_bound
       THEN \* building the analysis reads uses_points: UnboundLocalError
            HTTPError("analyze_velocity_trend")
       ELSE [tool |-> "analyze_velocity_trend",
             outcome |-> "ok",
             analysis_period |-> sprint_count,
             sprints_analyzed |-> Len(velocity_data),
             velocity_trend |->
                 [direction |-> trend.trend_direction,
                  percentage_change |-> RoundTenths(trend.trend_percentage),
                  average_velocity |-> RoundTenths(trend.average_velocity),
                  uses_story_points |-> trend.uses_points,
                  metric_type |->
                      IF trend.uses_points THEN "story_points" ELSE "issue_count"],
             sprint_details |-> velocity_data,
             recommendations |-> VelocityRecommendations(trend.trend_direction)]

VelocityTrend(b, sprint_count) ==
    VelocityResult(VelocityData(TargetSprints(b, sprint_count)), sprint_count)

(***************************************************************************)
(* jira_client.search_issues: the issues of a snapshot, each with its key  *)
(***************************************************************************)
SearchIssues(snapshot) ==
    [i \in 1..Len(snapshot) |->
        [key |-> i,
         status_category |-> snapshot[i].status_category,
         story_points |-> snapshot[i].story_points,
         priority |-> snapshot[i].priority,
         assignee |-> snapshot[i].assignee]]

\* d.get(key, {}).get(field, 0) on a dictionary of buckets
GetField(d, key, field) == IF key \in DOMAIN d THEN d[key][field] ELSE 0

\* d[key] of a defaultdict: the bucket, created from the default on first use
Bucket(d, key, default) == IF key \in DOMAIN d THEN d[key] ELSE default

Put(d, key, bucket) == [k \in DOMAIN d \cup {key} |-> IF k = key THEN bucket ELSE d[k]]

EmptyDict == [k \in {} |-> 0]

(***************************************************************************)
(* analyze_priority_focus                                                  *)
(***************************************************************************)
PriorityBucketZero ==
    [total |-> 0, in_progress |-> 0, completed |-> 0, todo |-> 0,
     total_points |-> 0, completed_points |-> 0, issues |-> <<>>]

PriorityStep(sprint_analysis, issue) ==
    LET priority == PriorityOf(issue)
        status_category == issue.status_category
        story_points == StoryPointsOf(issue)
        b0 == Bucket(sprint_analysis, priority, PriorityBucketZero)
        b1 == [b0 EXCEPT !.total = @ + 1,
                         !.total_points = @ + story_points,
                         !.issues = Append(@, issue.key)]
        b2 == IF status_category \in DoneCategories
              THEN [b1 EXCEPT !.completed = @ + 1,
                              !.completed_points = @ + story_points]
              ELSE IF status_category \in InProgressCategories
              THEN [b1 EXCEPT !.in_progress = @ + 1]
              ELSE [b1 EXCEPT !.todo = @ + 1]
    IN Put(sprint_analysis, priority, b2)

RECURSIVE PriorityLoop(_, _)
PriorityLoop(sprint_analysis, issues) ==
    IF issues = <<>> THEN sprint_analysis
    ELSE PriorityLoop(PriorityStep(sprint_analysis, Head(issues)), Tail(issues))

BacklogBucketZero == [total |-> 0, issues |-> <<>>]

BacklogStep(backlog_analysis, issue) ==
    LET priority == PriorityOf(issue)
        b0 == Bucket(backlog_analysis, priority, BacklogBucketZero)
    IN Put(backlog_analysis, priority,
           [b0 EXCEPT !.total = @ + 1, !.issues = Append(@, issue.key)])

RECURSIVE BacklogLoop(_, _)
BacklogLoop(backlog_analysis, issues) ==
    IF issues = <<>> THEN backlog_analysis
    ELSE BacklogLoop(BacklogStep(backlog_analysis, Head(issues)), Tail(issues))

\* the backlog searched whether or not the sprint has issues
BacklogFetchedAlways(issues, backlog) == backlog

\* the backlog search is made only for a sprint that has issues; its
\* project key is read from the first issue, which the tracker's answer is
\* taken to carry
BacklogFetched(issues, backlog) == IF issues # <<>> THEN backlog ELSE <<>>

RECURSIVE SumTotals(_, _)
SumTotals(d, keys) ==
    IF keys = {} THEN 0
    ELSE LET k == CHOOSE x \in keys : TRUE
         IN d[k].total + SumTotals(d, keys \ {k})

HighPriorityNames == {"Critical", "Highest", "High"}

HighPriorityInSprint(d) ==
    GetField(d, "Critical", "total") + GetField(d, "Highest", "total")
        + GetField(d, "High", "total")

\* HIGH only above 60 percent
FocusScoreAbove60(high_priority_percentage) ==
    IF high_priority_percentage.num > 60 * high_priority_percentage.den
    THEN "HIGH"
    ELSE IF FracGE(high_priority_percentage, 40) THEN "MEDIUM"
    ELSE "LOW"

FocusScore(high_priority_percentage) ==
    IF FracGE(high_priority_percentage, 60) THEN "HIGH"
    ELSE IF FracGE(high_priority_percentage, 40) THEN "MEDIUM"
    ELSE "LOW"

PriorityRecommendations(critical_in_backlog, high_priority_percentage, critical_in_sprint, critical_completed, critical_in_progress) ==
    (IF critical_in_backlog > 0
     THEN <<"Consider adding critical items from backlog">> ELSE <<>>)
    \o (IF FracLT(high_priority_percentage, 50)
        THEN <<"Sprint has low focus on high-priority items">> ELSE <<>>)
    \o (IF critical_in_sprint > 0 /\ critical_completed = 0
            /\ critical_in_progress = 0
        THEN <<"Critical items in sprint are not being actively worked on">>
        ELSE <<>>)
    \o (IF FracGE(high_priority_percentage, 70)
        THEN <<"Good focus on high-priority items">> ELSE <<>>)

PriorityFocus(issues, backlog) ==
    LET sprint_analysis == PriorityLoop(EmptyDict, issues)
        backlog_analysis ==
            BacklogLoop(EmptyDict, BacklogFetched(issues, backlog))
        critical_in_sprint == GetField(sprint_analysis, "Critical", "total")
        critical_in_backlog == GetField(backlog_analysis, "Critical", "total")
        critical_completed == GetField(sprint_analysis, "Critical", "completed")
        critical_in_progress ==
            GetField(sprint_analysis, "Critical", "in_progress")
        high_priority_in_sprint == HighPriorityInSprint(sprint_analysis)
        total_sprint_issues == SumTotals(sprint_analysis, DOMAIN sprint_analysis)
        high_priority_percentage ==
            Percentage(high_priority_in_sprint, total_sprint_issues)
    IN [tool |-> "analyze_priority_focus",
        outcome |-> "ok",
        priority_focus_analysis |->
            [critical_issues |->
                 [in_sprint_total |-> critical_in_sprint,
                  in_sprint_completed |-> critical_completed,
                  in_sprint_in_progress |-> critical_in_progress,
                  in_backlog_total |-> critical_in_backlog,
                  completion_rate |->
                      RoundTenths(Percentage(critical_completed,
                                             critical_in_sprint))],
             high_priority_focus |->
                 [high_priority_issues_in_sprint |-> high_priority_in_sprint,
                  total_sprint_issues |-> total_sprint_issues,
                  high_priority_percentage |->
                      RoundTenths(high_priority_percentage)]],
        sprint_breakdown_by_priority |-> sprint_analysis,
        backlog_high_priority_items |->
            [k \in {q \in DOMAIN backlog_analysis :
                       q \in HighPriorityNames /\ backlog_analysis[q].total > 0}
                |-> backlog_analysis[k]],
        priority_gap_analysis |->
            [focus_score |-> FocusScore(high_priority_percentage),
             critical_coverage |->
                 IF critical_in_sprint >= critical_in_backlog
                 THEN "GOOD" ELSE "NEEDS_ATTENTION",
             missed_critical_items |-> critical_in_backlog],
        recommendations |->
            PriorityRecommendations(critical_in_backlog, high_priority_percentage,
                                    critical_in_sprint, critical_completed,
                                    critical_in_progress)]

(***************************************************************************)
(* analyze_team_workload                                                   *)
(***************************************************************************)
WorkloadBucketZero ==
    [total_issues |-> 0, story_points |-> 0, in_progress_count |-> 0,
     completed_count |-> 0, todo_count |-> 0, priority_breakdown |-> EmptyDict,
     issues |-> <<>>, wip_violations |-> <<>>, load_level |-> "NORMAL",
     risk_factors |-> <<>>]

\* a violation recorded only beyond the second issue in progress
WorkloadStepWipAbove2(workload_analysis, issue) ==
    LET assignee == AssigneeOf(issue)
        story_points == StoryPointsOf(issue)
        status_category == issue.status_category
        priority == PriorityOf(issue)
        b0 == Bucket(workload_analysis, assignee, WorkloadBucketZero)
        b1 == [b0 EXCEPT !.total_issues = @ + 1,
                         !.story_points = @ + story_points,
                         !.priority_breakdown =
                             Put(@, priority,
                                 (IF priority \in DOMAIN @ THEN @[priority] ELSE 0) + 1),
                         !.issues = Append(@, issue.key)]
        b2 == IF status_category \in DoneCategories
              THEN [b1 EXCEPT !.completed_count = @ + 1]
              ELSE IF status_category \in InProgressCategories
              THEN [b1 EXCEPT !.in_progress_count = @ + 1,
                              !.wip_violations =
                                  IF b1.in_progress_count + 1 > 2
                                  THEN Append(@, issue.key) ELSE @]
              ELSE [b1 EXCEPT !.todo_count = @ + 1]
    IN Put(workload_analysis, assignee, b2)

WorkloadStep(workload_analysis, issue) ==
    LET assignee == AssigneeOf(issue)
        story_points == StoryPointsOf(issue)
        status_category == issue.status_category
        priority == PriorityOf(issue)
        b0 == Bucket(workload_analysis, assignee, WorkloadBucketZero)
        b1 == [b0 EXCEPT !.total_issues = @ + 1,
                         !.story_points = @ + story_points,
                         !.priority_breakdown =
                             Put(@, priority,
                                 (IF priority \in DOMAIN @ THEN @[priority] ELSE 0) + 1),
                         !.issues = Append(@, issue.key)]
        b2 == IF status_category \in DoneCategories
              THEN [b1 EXCEPT !.completed_count = @ + 1]
              ELSE IF status_category \in InProgressCategories
              THEN [b1 EXCEPT !.in_progress_count = @ + 1,
                              !.wip_violations =
                                  IF b1.in_progress_count + 1 > 1
                                  THEN Append(@, issue.key) ELSE @]
              ELSE [b1 EXCEPT !.todo_count = @ + 1]
    IN Put(workload_analysis, assignee, b2)

RECURSIVE WorkloadLoop(_, _)
WorkloadLoop(workload_analysis, issues) ==
    IF issues = <<>> THEN workload_analysis
    ELSE WorkloadLoop(WorkloadStep(workload_analysis, Head(issues)), Tail(issues))

LoadLevel(total_issues) ==
    IF total_issues >= 13 THEN "OVERLOADED"
    ELSE IF total_issues >= 9 THEN "HIGH"
    ELSE IF total_issues >= 5 THEN "NORMAL"
    ELSE "LIGHT"

\* priority_breakdown.get(name, 0)
CountOf(priority_breakdown, name) ==
    IF name \in DOMAIN priority_breakdown THEN priority_breakdown[name] ELSE 0

RiskFactors(data) ==
    LET critical_count == CountOf(data.priority_breakdown, "Critical")
        high_count == CountOf(data.priority_breakdown, "High")
                          + CountOf(data.priority_breakdown, "Highest")
    IN (IF data.in_progress_count > 2 THEN <<"WIP violation">> ELSE <<>>)
       \o (IF data.total_issues >= 13
           THEN <<"Excessive issue count may lead to burnout">> ELSE <<>>)
       \o (IF (critical_count + high_count) * 10 > data.total_issues * 7
           THEN <<"High context-switching risk">> ELSE <<>>)

\* the second loop without its final else branch: a count under 5 leaves
\* the level the bucket was created with
WithLoadLevelsNoLightBranch(workload_analysis) ==
    [a \in DOMAIN workload_analysis |->
        [workload_analysis[a] EXCEPT
            !.load_level = IF workload_analysis[a].total_issues >= 5
                           THEN LoadLevel(workload_analysis[a].total_issues)
                           ELSE @,
            !.risk_factors = RiskFactors(workload_analysis[a])]]

\* the second loop: load level and risk factors of every assignee
WithLoadLevels(workload_analysis) ==
    [a \in DOMAIN workload_analysis |->
        [workload_analysis[a] EXCEPT
            !.load_level = LoadLevel(workload_analysis[a].total_issues),
            !.risk_factors = RiskFactors(workload_analysis[a])]]

\* the keys of the per-assignee dictionary, in insertion order
RECURSIVE AssigneeOrder(_, _)
AssigneeOrder(issues, seen) ==
    IF issues = <<>> THEN <<>>
    ELSE LET k == AssigneeOf(Head(issues))
         IN IF k \in seen THEN AssigneeOrder(Tail(issues), seen)
            ELSE <<k>> \o AssigneeOrder(Tail(issues), seen \cup {k})

\* [name for name in names if name in keep]
RECURSIVE Filter(_, _)
Filter(names, keep) ==
    IF names = <<>> THEN <<>>
    ELSE IF Head(names) \in keep
         THEN <<Head(names)>> \o Filter(Tail(names), keep)
         ELSE Filter(Tail(names), keep)

MaxOf(S) == CHOOSE x \in S : \A y \in S : x >= y

MinOf(S) == CHOOSE x \in S : \A y \in S : x <= y

RECURSIVE SumIssues(_, _)
SumIssues(d, keys) ==
    IF keys = {} THEN 0
    ELSE LET k == CHOOSE x \in keys : TRUE
         IN d[k].total_issues + SumIssues(d, keys \ {k})

SprintFailureRisk(overloaded_members, high_load_members, wip_violators) ==
    IF overloaded_members # <<>> THEN "HIGH"
    ELSE IF high_load_members # <<>> \/ wip_violators # <<>> THEN "MEDIUM"
    ELSE "LOW"

WorkloadRecommendations(overloaded_members, wip_violators, unassigned_issues, max_issues, min_issues) ==
    (IF overloaded_members # <<>>
     THEN <<"URGENT: Redistribute work from overloaded members">> ELSE <<>>)
    \o (IF wip_violators # <<>> THEN <<"Address WIP violations">> ELSE <<>>)
    \o (IF unassigned_issues > 0
        THEN <<"Assign unassigned issues to prevent bottlenecks">> ELSE <<>>)
    \o (IF max_issues - min_issues > 8
        THEN <<"Rebalance workload distribution across team members">> ELSE <<>>)
    \o (IF overloaded_members = <<>> /\ wip_violators = <<>>
        THEN <<"Workload distribution looks healthy">> ELSE <<>>)

\* every key of the dictionary, the Unassigned bucket too
AssignedMembersWithUnassigned(workload_analysis) == DOMAIN workload_analysis

\* the keys kept by "if name != 'Unassigned'"
AssignedMembers(workload_analysis) == DOMAIN workload_analysis \ {"Unassigned"}

\* everything after the first loop
WorkloadResult(acc, issues) ==
    LET workload_analysis == WithLoadLevels(acc)
        names == AssigneeOrder(issues, {})
        members == AssignedMembers(workload_analysis)
        overloaded_members ==
            Filter(names, {a \in members :
                              workload_analysis[a].load_level = "OVERLOADED"})
        high_load_members ==
            Filter(names, {a \in members :
                              workload_analysis[a].load_level = "HIGH"})
        wip_violators ==
            Filter(names, {a \in members :
                              Len(workload_analysis[a].wip_violations) > 0})
        totals == {workload_analysis[a].total_issues : a \in members}
        avg_issues == IF members # {}
                      THEN Frac(SumIssues(workload_analysis, members),
                                Cardinality(members))
                      ELSE Frac(0, 1)
        max_issues == IF members # {} THEN MaxOf(totals) ELSE 0
        min_issues == IF members # {} THEN MinOf(totals) ELSE 0
        unassigned_issues == GetField(workload_analysis, "Unassigned", "total_issues")
    IN [tool |-> "analyze_team_workload",
        outcome |-> "ok",
        team_workload_summary |->
            [total_team_members |-> Cardinality(members),
             overloaded_members |-> Len(overloaded_members),
             high_load_members |-> Len(high_load_members),
             wip_violators |-> Len(wip_violators),
             unassigned_issues |-> unassigned_issues],
        distribution_statistics |->
            [average_issues_per_person |-> RoundTenths(avg_issues),
             max_issues_per_person |-> max_issues,
             min_issues_per_person |-> min_issues,
             distribution_balance |->
                 IF max_issues - min_issues > 8 THEN "UNBALANCED" ELSE "BALANCED"],
        individual_workloads |-> workload_analysis,
        immediate_risks |->
            [overloaded_members |-> overloaded_members,
             high_load_members |-> high_load_members,
             wip_violators |-> wip_violators,
             sprint_failure_risk |->
                 SprintFailureRisk(overloaded_members, high_load_members,
                                   wip_violators)],
        recommendations |->
            WorkloadRecommendations(overloaded_members, wip_violators,
                                    unassigned_issues, max_issues, min_issues)]

TeamWorkload(issues) == WorkloadResult(WorkloadLoop(EmptyDict, issues), issues)

(***************************************************************************)
(* sprint_health_dashboard                                                 *)
(***************************************************************************)
DashboardZero ==
    [total_committed_points |-> 0, completed_points |-> 0,
     in_progress_points |-> 0, completed_issues |-> 0,
     in_progress_issues |-> 0, issues_with_points |-> 0,
     priority_breakdown |-> EmptyDict, workload_by_assignee |-> EmptyDict]

DashboardPriorityZero == [total |-> 0, completed |-> 0, in_progress |-> 0]

DashboardWorkloadZero ==
    [total_issues |-> 0, in_progress_count |-> 0, completed_count |-> 0,
     story_points |-> 0, high_priority_count |-> 0]

DashboardStep(acc, issue) ==
    LET story_points == StoryPointsOf(issue)
        status_category == issue.status_category
        priority == PriorityOf(issue)
        assignee == AssigneeOf(issue)
        done == status_category \in DoneCategories
        doing == ~done /\ status_category \in InProgressCategories
        p0 == Bucket(acc.priority_breakdown, priority, DashboardPriorityZero)
        p1 == [p0 EXCEPT !.total = @ + 1,
                         !.completed = IF done THEN @ + 1 ELSE @,
                         !.in_progress = IF doing THEN @ + 1 ELSE @]
        w0 == Bucket(acc.workload_by_assignee, assignee, DashboardWorkloadZero)
        w1 == [w0 EXCEPT !.total_issues = @ + 1,
                         !.story_points = @ + story_points,
                         !.completed_count = IF done THEN @ + 1 ELSE @,
                         !.in_progress_count = IF doing THEN @ + 1 ELSE @,
                         !.high_priority_count =
                             IF priority \in HighPriorityNames THEN @ + 1 ELSE @]
    IN [acc EXCEPT
           !.issues_with_points = IF story_points # 0 THEN @ + 1 ELSE @,
           !.total_committed_points = IF story_points # 0 THEN @ + story_points ELSE @,
           !.completed_points =
               IF story_points # 0 /\ done THEN @ + story_points ELSE @,
           !.in_progress_points =
               IF story_points # 0 /\ doing THEN @ + story_points ELSE @,
           !.completed_issues = IF done THEN @ + 1 ELSE @,
           !.in_progress_issues = IF doing THEN @ + 1 ELSE @,
           !.priority_breakdown = Put(@, priority, p1),
           !.workload_by_assignee = Put(@, assignee, w1)]

RECURSIVE DashboardLoop(_, _)
DashboardLoop(acc, issues) ==
    IF issues = <<>> THEN acc
    ELSE DashboardLoop(DashboardStep(acc, Head(issues)), Tail(issues))

\* the completion rate taken from the issue counts whatever the metric
DashboardCompletionRateByIssues(acc, total_issues) ==
    Percentage(acc.completed_issues, total_issues)

DashboardCompletionRate(acc, total_issues) ==
    IF acc.issues_with_points > 0
    THEN Percentage(acc.completed_points, acc.total_committed_points)
    ELSE Percentage(acc.completed_issues, total_issues)

\* the MEDIUM assignments made without looking at the risk reached so far
OverallRiskMediumOverwrites(overcommitted, critical_idle, overloaded, wip, low_focus) ==
    IF wip \/ low_focus THEN "MEDIUM"
    ELSE IF overcommitted \/ critical_idle \/ overloaded THEN "HIGH"
    ELSE "LOW"

\* the risk assignments in their order; each keeps a risk that is already HIGH
OverallRisk(overcommitted, critical_idle, overloaded, wip, low_focus) ==
    LET r1 == IF overcommitted THEN "HIGH" ELSE "LOW"
        r2 == IF critical_idle THEN (IF r1 # "HIGH" THEN "HIGH" ELSE r1) ELSE r1
        r3 == IF overloaded THEN (IF r2 # "HIGH" THEN "HIGH" ELSE r2) ELSE r2
        r4 == IF wip THEN (IF r3 = "LOW" THEN "MEDIUM" ELSE r3) ELSE r3
    IN IF low_focus THEN (IF r4 = "LOW" THEN "MEDIUM" ELSE r4) ELSE r4

\* the low-focus condition raising the risk without being listed
HealthRisksWithoutFocus(overcommitted, critical_idle, overloaded, wip, low_focus) ==
    LET risks ==
            (IF overcommitted THEN <<"Sprint overcommitted">> ELSE <<>>)
            \o (IF critical_idle
                THEN <<"Critical items not being worked on">> ELSE <<>>)
            \o (IF overloaded THEN <<"team members overloaded">> ELSE <<>>)
            \o (IF wip THEN <<"WIP limit violations">> ELSE <<>>)
    IN IF risks = <<>> THEN <<"No major risks identified">> ELSE risks

HealthRisks(overcommitted, critical_idle, overloaded, wip, low_focus) ==
    LET risks ==
            (IF overcommitted THEN <<"Sprint overcommitted">> ELSE <<>>)
            \o (IF critical_idle
                THEN <<"Critical items not being worked on">> ELSE <<>>)
            \o (IF overloaded THEN <<"team members overloaded">> ELSE <<>>)
            \o (IF wip THEN <<"WIP limit violations">> ELSE <<>>)
            \o (IF low_focus THEN <<"Low focus on high-priority items">> ELSE <<>>)
    IN IF risks = <<>> THEN <<"No major risks identified">> ELSE risks

\* the critical-items entry appended ahead of the workload entries
KeyRecommendationsCriticalFirst(commitment_status, critical_idle, overloaded, wip, low_focus) ==
    LET recommendations ==
            (IF commitment_status = "SEVERELY_OVERCOMMITTED"
             THEN <<"CRITICAL: Immediately reduce sprint scope">>
             ELSE IF commitment_status = "OVERCOMMITTED"
             THEN <<"Consider reducing sprint scope or extending timeline">>
             ELSE <<>>)
            \o (IF critical_idle
                THEN <<"Start working on critical items immediately">> ELSE <<>>)
            \o (IF overloaded
                THEN <<"Redistribute work from overloaded members">> ELSE <<>>)
            \o (IF wip THEN <<"Address WIP violations">> ELSE <<>>)
            \o (IF low_focus
                THEN <<"Increase focus on high-priority items in this sprint">>
                ELSE <<>>)
    IN IF recommendations = <<>>
       THEN <<"Sprint health looks good - maintain current approach">>
       ELSE recommendations

KeyRecommendations(commitment_status, critical_idle, overloaded, wip, low_focus) ==
    LET recommendations ==
            (IF commitment_status = "SEVERELY_OVERCOMMITTED"
             THEN <<"CRITICAL: Immediately reduce sprint scope">>
             ELSE IF commitment_status = "OVERCOMMITTED"
             THEN <<"Consider reducing sprint scope or extending timeline">>
             ELSE <<>>)
            \o (IF overloaded
                THEN <<"Redistribute work from overloaded members">> ELSE <<>>)
            \o (IF wip THEN <<"Address WIP violations">> ELSE <<>>)
            \o (IF critical_idle
                THEN <<"Start working on critical items immediately">> ELSE <<>>)
            \o (IF low_focus
                THEN <<"Increase focus on high-priority items in this sprint">>
                ELSE <<>>)
    IN IF recommendations = <<>>
       THEN <<"Sprint health looks good - maintain current approach">>
       ELSE recommendations

\* the fetched sprint, by the names of the values the output carries
SprintFetched == [id |-> "sprint_id", name |-> "sprint.name", state |-> "sprint.state"]

NoIssuesFound ==
    [tool |-> "sprint_health_dashboard", outcome |-> "ok",
     error |-> "No issues found in sprint",
     sprint_info |->
         [id |-> SprintFetched.id, name |-> SprintFetched.name,
          state |-> SprintFetched.state]]

\* everything after the loop
DashboardResult(acc, issues) ==
    LET total_issues == Len(issues)
        uses_story_points == acc.issues_with_points > 0
        completion_rate == DashboardCompletionRate(acc, total_issues)
        commitment_status == CommitmentStatus(completion_rate)
        critical_total == GetField(acc.priority_breakdown, "Critical", "total")
        critical_in_progress ==
            GetField(acc.priority_breakdown, "Critical", "in_progress")
        high_priority_total == HighPriorityInSprint(acc.priority_breakdown)
        high_priority_percentage == Percentage(high_priority_total, total_issues)
        names == AssigneeOrder(issues, {})
        members == DOMAIN acc.workload_by_assignee \ {"Unassigned"}
        assigned_members == Filter(names, members)
        overloaded_members ==
            Filter(names, {a \in members :
                              acc.workload_by_assignee[a].total_issues >= 13})
        wip_violators ==
            Filter(names, {a \in members :
                              acc.workload_by_assignee[a].in_progress_count > 2})
        overcommitted ==
            commitment_status \in {"OVERCOMMITTED", "SEVERELY_OVERCOMMITTED"}
        critical_idle == critical_total > 0 /\ critical_in_progress = 0
        overloaded == overloaded_members # <<>>
        wip == wip_violators # <<>>
        low_focus == FracLT(high_priority_percentage, 50)
    IN [tool |-> "sprint_health_dashboard",
        outcome |-> "ok",
        sprint_info |->
            [id |-> SprintFetched.id, name |-> SprintFetched.name,
             state |-> SprintFetched.state, board_id |-> "board_id"],
        overall_health |->
            [risk_level |->
                 OverallRisk(overcommitted, critical_idle, overloaded, wip, low_focus),
             commitment_status |-> commitment_status,
             completion_rate |-> RoundTenths(completion_rate),
             health_risks |->
                 HealthRisks(overcommitted, critical_idle, overloaded, wip, low_focus)],
        commitment_summary |->
            [is_overcommitted |-> overcommitted,
             uses_story_points |-> uses_story_points,
             total_work |->
                 IF uses_story_points THEN acc.total_committed_points
                 ELSE total_issues,
             completed_work |->
                 IF uses_story_points THEN acc.completed_points
                 ELSE acc.completed_issues,
             in_progress_work |->
                 IF uses_story_points THEN acc.in_progress_points
                 ELSE acc.in_progress_issues,
             completion_rate |-> RoundTenths(completion_rate)],
        priority_summary |->
            [critical_issues_total |-> critical_total,
             critical_issues_in_progress |-> critical_in_progress,
             high_priority_percentage |-> RoundTenths(high_priority_percentage),
             priority_focus_score |-> FocusScore(high_priority_percentage)],
        team_summary |->
            [total_team_members |-> Len(assigned_members),
             overloaded_members |-> Len(overloaded_members),
             wip_violators |-> Len(wip_violators),
             unassigned_issues |->
                 GetField(acc.workload_by_assignee, "Unassigned", "total_issues"),
             team_capacity_risk |->
                 IF overloaded THEN "HIGH" ELSE IF wip THEN "MEDIUM" ELSE "LOW"],
        key_recommendations |->
            KeyRecommendations(commitment_status, critical_idle, overloaded, wip,
                               low_focus),
        detailed_breakdowns |->
            [priority_breakdown |-> acc.priority_breakdown,
             workload_breakdown |-> acc.workload_by_assignee]]

FullDashboard(issues) ==
    DashboardResult(DashboardLoop(DashboardZero, issues), issues)

\* the dashboard computed for an empty sprint as for any other
HealthDashboardAlwaysFull(issues) == FullDashboard(issues)

\* if not issues: return the error object
HealthDashboard(issues) ==
    IF issues = <<>> THEN NoIssuesFound ELSE FullDashboard(issues)

NoResult == [tool |-> "none", outcome |-> "none"]

NoRequest == [tool |-> "none"]

\* the worker threads that run the tool functions, and a worker at rest
Workers == {1, 2}

NoCall == [tool |-> "none", pc |-> "idle", fetch_failed |-> 0, result |-> NoResult]

NoCalls == [c \in Workers |-> NoCall]

(***************************************************************************)
(* Snapshots the tracker can hold.  A sprint's issues vary in status and   *)
(* story points, or in status and priority (with a backlog), or in status  *)
(* and assignee.                                                           *)
(***************************************************************************)
StatusCategories == {"Done", "Complete", "In Progress", "In Development", "To Do"}

RawPoints == {None} \cup {Some(p) : p \in 0..MaxPoints}

Priorities == {None, Some("Critical"), Some("Highest"), Some("High")}

Assignees == {None, Some("alice"), Some("bob")}

SeqsUpTo(S, n) == UNION {[1..k -> S] : k \in 0..n}

PointIssues ==
    [status_category : StatusCategories, story_points : RawPoints,
     priority : {None}, assignee : {None}]

PriorityIssues ==
    [status_category : StatusCategories, story_points : {None},
     priority : Priorities, assignee : {None}]

AssigneeIssues ==
    [status_category : StatusCategories, story_points : {None},
     priority : {None}, assignee : Assignees]

BacklogIssues ==
    [status_category : {"To Do"}, story_points : {None},
     priority : {None, Some("Critical")}, assignee : {None}]

\* what one sprint of a board holds: nothing, or one issue: done without
\* story points, done with a point, or not done with a point
VelocityIssues ==
    {[status_category |-> "Done", story_points |-> None,
      priority |-> None, assignee |-> None],
     [status_category |-> "Done", story_points |-> Some(1),
      priority |-> None, assignee |-> None],
     [status_category |-> "To Do", story_points |-> Some(1),
      priority |-> None, assignee |-> None]}

SprintContents == SeqsUpTo(VelocityIssues, 1)

StartDates == {None, Some(1), Some(2), Some(3)}

BoardSprints == [startDate : StartDates, issues : SprintContents]

Idle == request = NoRequest

Init ==
    /\ \/ /\ sprint_issues \in SeqsUpTo(PointIssues, MaxIssues)
          /\ backlog_issues = <<>>
       \/ /\ sprint_issues \in SeqsUpTo(PriorityIssues, MaxIssues)
          /\ backlog_issues \in SeqsUpTo(BacklogIssues, MaxBacklog)
       \/ /\ sprint_issues \in SeqsUpTo(AssigneeIssues, MaxIssues)
          /\ backlog_issues = <<>>
    /\ board = <<>>
    /\ request = NoRequest
    /\ result = NoResult
    /\ calls = NoCalls

(***************************************************************************)
(* The tool calls.  fetch_failed numbers the jira_client call that raises  *)
(* (0: none); every exception ends in the handler's except clause.         *)
(***************************************************************************)

\* analyze_sprint_commitment(sprint_id): fetch 1 = sprint, 2 = issue search
AnalyzeSprintCommitment ==
    /\ Idle
    /\ \E failAt \in 0..2 :
        /\ request' = [tool |-> "analyze_sprint_commitment", fetch_failed |-> failAt]
        /\ result' = IF failAt # 0
                     THEN HTTPError("analyze_sprint_commitment")
                     ELSE SprintCommitment(SearchIssues(sprint_issues))
    /\ UNCHANGED <<sprint_issues, backlog_issues, board, calls>>

\* analyze_priority_focus(board_id, sprint_id): fetch 1 = sprint, 2 = issue
\* search, 3 = backlog search (made only when the sprint has issues)
AnalyzePriorityFocus ==
    /\ Idle
    /\ \E failAt \in 0..(IF sprint_issues # <<>> THEN 3 ELSE 2) :
        /\ request' = [tool |-> "analyze_priority_focus", fetch_failed |-> failAt]
        /\ result' = IF failAt # 0
                     THEN HTTPError("analyze_priority_focus")
                     ELSE PriorityFocus(SearchIssues(sprint_issues),
                                        SearchIssues(backlog_issues))
    /\ UNCHANGED <<sprint_issues, backlog_issues, board, calls>>

\* analyze_team_workload(board_id, sprint_id): fetch 1 = sprint, 2 = issues
AnalyzeTeamWorkload ==
    /\ Idle
    /\ \E failAt \in 0..2 :
        /\ request' = [tool |-> "analyze_team_workload", fetch_failed |-> failAt]
        /\ result' = IF failAt # 0
                     THEN HTTPError("analyze_team_workload")
                     ELSE TeamWorkload(SearchIssues(sprint_issues))
    /\ UNCHANGED <<sprint_issues, backlog_issues, board, calls>>

\* sprint_health_dashboard(board_id, sprint_id): fetch 1 = sprint, 2 = issues
SprintHealthDashboard ==
    /\ Idle
    /\ \E failAt \in 0..2 :
        /\ request' = [tool |-> "sprint_health_dashboard", fetch_failed |-> failAt]
        /\ result' = IF failAt # 0
                     THEN HTTPError("sprint_health_dashboard")
                     ELSE HealthDashboard(SearchIssues(sprint_issues))
    /\ UNCHANGED <<sprint_issues, backlog_issues, board, calls>>

\* the response leaves the server; nothing of the call is kept
Respond ==
    /\ ~Idle
    /\ request' = NoRequest
    /\ result' = NoResult
    /\ UNCHANGED <<sprint_issues, backlog_issues, board, calls>>

Next ==
    \/ AnalyzeSprintCommitment
    \/ AnalyzePriorityFocus
    \/ AnalyzeTeamWorkload
    \/ SprintHealthDashboard
    \/ Respond

Spec == Init /\ [][Next]_vars

(***************************************************************************)
(* The velocity trend over the boards the tracker can hold.                *)
(***************************************************************************)
InitVelocity ==
    /\ sprint_issues = <<>>
    /\ backlog_issues = <<>>
    /\ board \in SeqsUpTo(BoardSprints, MaxSprints)
    /\ request = NoRequest
    /\ result = NoResult
    /\ calls = NoCalls

\* analyze_velocity_trend(board_id, sprint_count): fetch 1 is the sprint
\* list, fetch k + 1 the issue search of the k-th sprint of the window
AnalyzeVelocityTrend ==
    /\ Idle
    /\ \E sprint_count \in 0..MaxSprints :
        \E failAt \in 0..(1 + Len(TargetSprints(board, sprint_count))) :
            /\ request' = [tool |-> "analyze_velocity_trend",
                           sprint_count |-> sprint_count,
                           fetch_failed |-> failAt]
            /\ result' = IF failAt # 0
                         THEN HTTPError("analyze_velocity_trend")
                         ELSE VelocityTrend(board, sprint_count)
    /\ UNCHANGED <<sprint_issues, backlog_issues, board, calls>>

NextVelocity == AnalyzeVelocityTrend \/ Respond

SpecVelocity == InitVelocity /\ [][NextVelocity]_vars

(***************************************************************************)
(* The sprint analyzers over large sprints: a sprint is a run of equal     *)
(* issues followed by a second run, each issue with a status, a priority   *)
(* and an assignee.                                                        *)
(***************************************************************************)
LoadIssues ==
    [status_category : {"Done", "In Progress", "To Do"}, story_points : {None},
     priority : {None, Some("Critical")},
     assignee : {None, Some("alice"), Some("bob")}]

Repeat(issue, n) == [i \in 1..n |-> issue]

InitLoad ==
    /\ \E first, second \in LoadIssues :
        \E m, n \in 0..MaxRun :
            sprint_issues = Repeat(first, m) \o Repeat(second, n)
    /\ backlog_issues = <<>>
    /\ board = <<>>
    /\ request = NoRequest
    /\ result = NoResult
    /\ calls = NoCalls

SpecLoad == InitLoad /\ [][Next]_vars

(***************************************************************************)
(* analyze_velocity_trend run fetch by fetch on one worker: the sprint     *)
(* list, then the issue search of each sprint of the window in turn, each  *)
(* followed by the aggregation of that sprint, then the analysis.          *)
(* fetch_failed numbers the fetch that raised, as in the requests above.   *)
(***************************************************************************)
StepSprints ==
    {[startDate |-> None, issues |-> <<>>],
     [startDate |-> Some(1),
      issues |-> <<[status_category |-> "Done", story_points |-> Some(1),
                    priority |-> None, assignee |-> None]>>],
     [startDate |-> Some(2),
      issues |-> <<[status_category |-> "Done", story_points |-> None,
                    priority |-> None, assignee |-> None]>>]}

InitVelocitySteps ==
    /\ sprint_issues = <<>>
    /\ backlog_issues = <<>>
    /\ board \in SeqsUpTo(StepSprints, MaxSprints)
    /\ request = NoRequest
    /\ result = NoResult
    /\ calls = NoCalls

\* a failed fetch passed over: the loop goes on with the next sprint
FetchFailureSkipsSprint(call, k) ==
    [call EXCEPT !.fetch_failed = k, !.position = @ + 1]

\* the exception leaves the loop for the except clause, which raises
\* HTTPException(status_code=500): nothing more is fetched or aggregated
FetchFailure(call, k) ==
    [call EXCEPT !.pc = "done", !.fetch_failed = k, !.result = HTTPError(call.tool)]

StartVelocity(c) ==
    /\ calls[c].pc \in {"idle", "done"}
    /\ \E sprint_count \in 0..MaxSprints, failed \in BOOLEAN :
        LET started ==
                [tool |-> "analyze_velocity_trend", pc |-> "fetch",
                 fetch_failed |-> 0, sprint_count |-> sprint_count,
                 window |-> IF failed THEN <<>>
                            ELSE TargetSprints(board, sprint_count),
                 position |-> 0, velocity_data |-> <<>>, result |-> NoResult]
        IN calls' = [calls EXCEPT
                        ![c] = IF failed THEN FetchFailure(started, 1) ELSE started]
    /\ UNCHANGED <<sprint_issues, backlog_issues, board, request, result>>

\* one pass of "for sprint in target_sprints": search, count, append
FetchSprintIssues(c) ==
    /\ calls[c].pc = "fetch"
    /\ calls[c].position < Len(calls[c].window)
    /\ \E failed \in BOOLEAN :
        LET k == calls[c].position + 1
        IN calls' = [calls EXCEPT
                        ![c] = IF failed THEN FetchFailure(@, k + 1)
                               ELSE [@ EXCEPT
                                        !.position = k,
                                        !.velocity_data =
                                            Append(@, SprintData(calls[c].window[k]))]]
    /\ UNCHANGED <<sprint_issues, backlog_issues, board, request, result>>

FinishVelocity(c) ==
    /\ calls[c].pc = "fetch"
    /\ calls[c].position >= Len(calls[c].window)
    /\ calls' = [calls EXCEPT
                    ![c] = [@ EXCEPT
                              !.pc = "done",
                              !.result = VelocityResult(calls[c].velocity_data,
                                                        calls[c].sprint_count)]]
    /\ UNCHANGED <<sprint_issues, backlog_issues, board, request, result>>

NextVelocitySteps ==
    \/ StartVelocity(1)
    \/ FetchSprintIssues(1)
    \/ FinishVelocity(1)

SpecVelocitySteps == InitVelocitySteps /\ [][NextVelocitySteps]_vars

(***************************************************************************)
(* Sprint analyzers served side by side.  Each worker runs one tool        *)
(* function at a time, one loop iteration per step, on the issues it       *)
(* fetched and in its own local variables; the workers' steps interleave   *)
(* in any order, and the tracker's users edit the sprint in between.       *)
(***************************************************************************)
ConcurrentTools ==
    {"analyze_sprint_commitment", "analyze_team_workload",
     "sprint_health_dashboard"}

ConcurrentIssues ==
    {[status_category |-> "Done", story_points |-> Some(2),
      priority |-> Some("Critical"), assignee |-> Some("alice")],
     [status_category |-> "In Progress", story_points |-> None,
      priority |-> None, assignee |-> None]}

ConcurrentSprints == SeqsUpTo(ConcurrentIssues, MaxConcurrentIssues)

InitConcurrent ==
    /\ sprint_issues \in ConcurrentSprints
    /\ backlog_issues = <<>>
    /\ board = <<>>
    /\ request = NoRequest
    /\ result = NoResult
    /\ calls = NoCalls

\* the accumulators as the function's first statements create them
ZeroOf(tool_name) ==
    CASE tool_name = "analyze_sprint_commitment" -> CommitmentZero
      [] tool_name = "analyze_team_workload" -> EmptyDict
      [] tool_name = "sprint_health_dashboard" -> DashboardZero

\* one iteration of "for issue in issues"
StepOf(tool_name, acc, issue) ==
    CASE tool_name = "analyze_sprint_commitment" -> CommitmentStep(acc, issue)
      [] tool_name = "analyze_team_workload" -> WorkloadStep(acc, issue)
      [] tool_name = "sprint_health_dashboard" -> DashboardStep(acc, issue)

\* the statements after the loop, up to the return
ResultOf(tool_name, acc, issues) ==
    CASE tool_name = "analyze_sprint_commitment" -> CommitmentResult(acc, issues)
      [] tool_name = "analyze_team_workload" -> WorkloadResult(acc, issues)
      [] tool_name = "sprint_health_dashboard" ->
            IF issues = <<>> THEN NoIssuesFound ELSE DashboardResult(acc, issues)

\* accumulators kept at module level: a call goes on from what the worker's
\* previous call of the same tool left
LocalsLeftOver(tool_name, previous) ==
    IF previous.tool = tool_name /\ previous.fetch_failed = 0
    THEN previous.acc ELSE ZeroOf(tool_name)

\* the accumulators are locals assigned at the top of the call, whatever
\* the worker ran before
FreshLocals(tool_name, previous) == ZeroOf(tool_name)

\* a call arrives and makes its two fetches: 1 = sprint, 2 = issue search
StartCall(c) ==
    /\ calls[c].pc \in {"idle", "done"}
    /\ \E tool_name \in ConcurrentTools, failAt \in 0..2 :
        calls' = [calls EXCEPT
                     ![c] = IF failAt # 0
                            THEN [tool |-> tool_name, pc |-> "done",
                                  fetch_failed |-> failAt,
                                  result |-> HTTPError(tool_name)]
                            ELSE [tool |-> tool_name, pc |-> "loop",
                                  fetch_failed |-> 0,
                                  issues |-> SearchIssues(sprint_issues),
                                  position |-> 0,
                                  acc |-> FreshLocals(tool_name, calls[c]),
                                  result |-> NoResult]]
    /\ UNCHANGED <<sprint_issues, backlog_issues, board, request, result>>

IterateCall(c) ==
    /\ calls[c].pc = "loop"
    /\ calls[c].position < Len(calls[c].issues)
    /\ calls' = [calls EXCEPT
                    ![c] = [@ EXCEPT
                              !.position = @ + 1,
                              !.acc = StepOf(calls[c].tool, @,
                                             calls[c].issues[calls[c].position + 1])]]
    /\ UNCHANGED <<sprint_issues, backlog_issues, board, request, result>>

FinishCall(c) ==
    /\ calls[c].pc = "loop"
    /\ calls[c].position = Len(calls[c].issues)
    /\ calls' = [calls EXCEPT
                    ![c] = [@ EXCEPT
                              !.pc = "done",
                              !.result = ResultOf(calls[c].tool, calls[c].acc,
                                                  calls[c].issues)]]
    /\ UNCHANGED <<sprint_issues, backlog_issues, board, request, result>>

\* the tracker's users change the sprint while calls are running: an issue
\* joins the sprint or the last one leaves it
EditSprint ==
    /\ \/ /\ Len(sprint_issues) < MaxConcurrentIssues
          /\ \E issue \in ConcurrentIssues :
                sprint_issues' = Append(sprint_issues, issue)
       \/ /\ sprint_issues # <<>>
          /\ sprint_issues' = SubSeq(sprint_issues, 1, Len(sprint_issues) - 1)
    /\ UNCHANGED <<backlog_issues, board, request, result, calls>>

NextConcurrent ==
    \/ \E c \in Workers : StartCall(c)
    \/ \E c \in Workers : IterateCall(c)
    \/ \E c \in Workers : FinishCall(c)
    \/ EditSprint

SpecConcurrent == InitConcurrent /\ [][NextConcurrent]_vars

(***************************************************************************)
(* Properties of the analyzers.                                            *)
(***************************************************************************)
Answered(tool_name) == request.tool = tool_name /\ request.fetch_failed = 0

Returned(tool_name) == Answered(tool_name) /\ result.outcome = "ok"

\* the velocity values of the current velocity request
RequestVelocities ==
    Velocities(VelocityData(TargetSprints(board, request.sprint_count)))

\* C1: analyze_velocity_trend, when fewer than 2 velocity values exist,
\* returns a result with direction INSUFFICIENT_DATA and percentage change 0
\* rather than failing.
C1_InsufficientDataIsReturned ==
    (Answered("analyze_velocity_trend") /\ Len(RequestVelocities) < 2)
        => /\ result.outcome = "ok"
           /\ result.velocity_trend.direction = "INSUFFICIENT_DATA"
           /\ result.velocity_trend.percentage_change = 0

\* C2: once every upstream fetch of a request has succeeded, the analyzer
\* returns a result object and never the HTTP 500 error.
C2_NoFailureAfterFetch ==
    (request.tool # "none" /\ request.fetch_failed = 0) => result.outcome = "ok"

\* C3: for an empty sprint analyze_sprint_commitment reports total 0 and
\* completion rate 0, and a commitment status other than
\* SEVERELY_OVERCOMMITTED.
C3_EmptySprintNotSeverelyOvercommitted ==
    (Returned("analyze_sprint_commitment") /\ sprint_issues = <<>>)
        => /\ result.velocity_metrics.issue_throughput.total_committed = 0
           /\ result.commitment_analysis.completion_rate = 0
           /\ result.commitment_analysis.status # "SEVERELY_OVERCOMMITTED"

\* the totals of the primary metric of a commitment result
PrimaryTotals ==
    IF result.velocity_metrics.uses_story_points
    THEN result.velocity_metrics.story_points
    ELSE result.velocity_metrics.issue_throughput

\* C4: the commitment status follows the unrounded primary completion rate
\* r = completed / total * 100 (0 for total 0) with exact lower bounds:
\* r >= 80 ON_TRACK, 60 <= r < 80 AT_RISK, 40 <= r < 60 OVERCOMMITTED,
\* r < 40 SEVERELY_OVERCOMMITTED; is_overcommitted holds exactly for the
\* last two.
C4_CommitmentThresholds ==
    Returned("analyze_sprint_commitment") =>
        LET t == PrimaryTotals.total_committed
            c == IF t > 0 THEN PrimaryTotals.completed ELSE 0
            d == IF t > 0 THEN t ELSE 1
            status == result.commitment_analysis.status
        IN /\ (status = "ON_TRACK") <=> (c * 100 >= 80 * d)
           /\ (status = "AT_RISK") <=> (c * 100 >= 60 * d /\ c * 100 < 80 * d)
           /\ (status = "OVERCOMMITTED") <=> (c * 100 >= 40 * d /\ c * 100 < 60 * d)
           /\ (status = "SEVERELY_OVERCOMMITTED") <=> (c * 100 < 40 * d)
           /\ result.commitment_analysis.is_overcommitted
                  <=> status \in {"OVERCOMMITTED", "SEVERELY_OVERCOMMITTED"}

\* C4 witness: a point-based sprint exactly on the bound 40 (2 of 5 points)
\* is OVERCOMMITTED.
C4_Witness ==
    /\ Returned("analyze_sprint_commitment")
    /\ result.velocity_metrics.uses_story_points
    /\ PrimaryTotals.completed * 100 = 40 * PrimaryTotals.total_committed
    /\ result.commitment_analysis.status = "OVERCOMMITTED"
    /\ result.commitment_analysis.is_overcommitted

\* some issue of the sprint carries story points > 0
SomeIssueHasPoints ==
    \E i \in 1..Len(sprint_issues) :
        /\ sprint_issues[i].story_points # None
        /\ sprint_issues[i].story_points[1] > 0

\* C5: the primary metric of analyze_sprint_commitment is story points
\* exactly when some issue has story points > 0, and the issue count
\* otherwise; a sprint without points is assessed with the count rate.
C5_MetricSelection ==
    Returned("analyze_sprint_commitment") =>
        LET vm == result.velocity_metrics
            ca == result.commitment_analysis
        IN /\ vm.uses_story_points <=> SomeIssueHasPoints
           /\ (vm.primary_metric = "story_points") <=> SomeIssueHasPoints
           /\ (vm.primary_metric = "issue_count") <=> ~SomeIssueHasPoints
           /\ SomeIssueHasPoints =>
                  /\ ca.completion_rate = vm.story_points.completion_rate
                  /\ ca.remaining_work =
                         vm.story_points.total_committed - vm.story_points.completed
           /\ ~SomeIssueHasPoints =>
                  /\ ca.completion_rate = vm.issue_throughput.completion_rate
                  /\ ca.remaining_work =
                         vm.issue_throughput.total_committed
                             - vm.issue_throughput.completed
                  /\ ca.status = CommitmentStatus(
                         Percentage(vm.issue_throughput.completed,
                                    vm.issue_throughput.total_committed))

\* C5 witness: a sprint whose issues carry no points (one with an explicit
\* 0) and are all done is assessed by count: rate 100, not a point rate 0.
C5_Witness ==
    /\ Returned("analyze_sprint_commitment")
    /\ \E i \in 1..Len(sprint_issues) : sprint_issues[i].story_points = Some(0)
    /\ ~result.velocity_metrics.uses_story_points
    /\ result.velocity_metrics.story_points.completion_rate = 0
    /\ result.commitment_analysis.completion_rate = 1000
    /\ result.commitment_analysis.status = "ON_TRACK"

RecognisedCategories == {"Done", "Complete", "In Progress", "In Development"}

\* the issues of the sprint that satisfy Pick and have an unrecognised category
UnrecognisedCount(Pick(_)) ==
    Cardinality({i \in 1..Len(sprint_issues) :
                    /\ Pick(sprint_issues[i])
                    /\ sprint_issues[i].status_category \notin RecognisedCategories})

AnyIssue(issue) == TRUE

\* C6: the status buckets partition the total: todo + in_progress +
\* completed = total for the issue counts and the story points of
\* analyze_sprint_commitment, for every priority bucket of
\* analyze_priority_focus and for every assignee of analyze_team_workload;
\* an issue whose category is none of Done, Complete, In Progress,
\* In Development is counted as todo.
C6_StatusBucketsPartition ==
    /\ Returned("analyze_sprint_commitment") =>
           LET it == result.velocity_metrics.issue_throughput
               sp == result.velocity_metrics.story_points
           IN /\ it.todo + it.in_progress + it.completed = it.total_committed
              /\ sp.todo + sp.in_progress + sp.completed = sp.total_committed
              /\ it.total_committed = Len(sprint_issues)
              /\ it.todo = UnrecognisedCount(AnyIssue)
    /\ Returned("analyze_priority_focus") =>
           \A p \in DOMAIN result.sprint_breakdown_by_priority :
               LET b == result.sprint_breakdown_by_priority[p]
                   HasPriority(issue) == PriorityOf(issue) = p
               IN /\ b.todo + b.in_progress + b.completed = b.total
                  /\ b.todo = UnrecognisedCount(HasPriority)
    /\ Returned("analyze_team_workload") =>
           \A a \in DOMAIN result.individual_workloads :
               LET w == result.individual_workloads[a]
                   HasAssignee(issue) == AssigneeOf(issue) = a
               IN /\ w.todo_count + w.in_progress_count + w.completed_count
                         = w.total_issues
                  /\ w.todo_count = UnrecognisedCount(HasAssignee)

\* C6 witness: a commitment result with todo, in-progress and completed
\* story points all present.
C6_Witness ==
    /\ Returned("analyze_sprint_commitment")
    /\ result.velocity_metrics.story_points.todo > 0
    /\ result.velocity_metrics.story_points.in_progress > 0
    /\ result.velocity_metrics.issue_throughput.todo > 0
    /\ result.velocity_metrics.issue_throughput.in_progress > 0

\* C7: the story-point and the issue-count completion rates of
\* analyze_sprint_commitment and the completion rate of
\* sprint_health_dashboard lie in [0, 100] (rates are in tenths) and are 0
\* when their total is 0.
C7_CompletionRateRange ==
    /\ Returned("analyze_sprint_commitment") =>
           LET it == result.velocity_metrics.issue_throughput
               sp == result.velocity_metrics.story_points
           IN /\ sp.completion_rate \in 0..1000
              /\ it.completion_rate \in 0..1000
              /\ result.commitment_analysis.completion_rate \in 0..1000
              /\ sp.total_committed = 0 => sp.completion_rate = 0
              /\ it.total_committed = 0 => it.completion_rate = 0
              /\ sp.completed <= sp.total_committed
              /\ it.completed <= it.total_committed
    /\ (Returned("sprint_health_dashboard") /\ sprint_issues # <<>>) =>
           LET cs == result.commitment_summary
           IN /\ cs.completion_rate \in 0..1000
              /\ result.overall_health.completion_rate = cs.completion_rate
              /\ cs.total_work = 0 => cs.completion_rate = 0
              /\ cs.completed_work <= cs.total_work

\* C7 witness: issues exist but none carries points, so the point total is
\* 0 and the point rate 0, while the count rate is 100.
C7_Witness ==
    /\ Returned("analyze_sprint_commitment")
    /\ sprint_issues # <<>>
    /\ result.velocity_metrics.story_points.total_committed = 0
    /\ result.velocity_metrics.story_points.completion_rate = 0
    /\ result.velocity_metrics.issue_throughput.completion_rate = 1000

\* C8 as stated: with exactly 2 sprints analyzed the direction is STABLE and
\* the percentage change 0, whichever of the sprints carry story points.
C8_TwoSprintsAlwaysStable ==
    (Returned("analyze_velocity_trend") /\ result.sprints_analyzed = 2)
        => /\ result.velocity_trend.direction = "STABLE"
           /\ result.velocity_trend.percentage_change = 0

\* C8 amended: with exactly 2 sprints analyzed the percentage change is 0;
\* the direction is STABLE when both sprints carry story points or neither
\* does, and INSUFFICIENT_DATA when exactly one of them does.
C8_TwoSprintsStableOrInsufficient ==
    (Returned("analyze_velocity_trend") /\ result.sprints_analyzed = 2)
        => /\ result.velocity_trend.percentage_change = 0
           /\ result.velocity_trend.direction =
                  IF result.sprint_details[1].uses_story_points
                         = result.sprint_details[2].uses_story_points
                  THEN "STABLE" ELSE "INSUFFICIENT_DATA"

\* C8 witness: two sprints, both with points, with different velocities.
C8_Witness ==
    /\ Returned("analyze_velocity_trend")
    /\ result.sprints_analyzed = 2
    /\ result.sprint_details[1].uses_story_points
    /\ result.sprint_details[2].uses_story_points
    /\ result.sprint_details[1].story_points.velocity
           # result.sprint_details[2].story_points.velocity
    /\ result.velocity_trend.direction = "STABLE"

\* C9: with at least 2 velocity values, most recent first, the direction
\* compares the mean of the first two with the mean of the last two, and
\* the percentage change is (recent - older) / older * 100, or 0 when the
\* older mean is 0.
C9_TrendDirectionAndPercentage ==
    (Returned("analyze_velocity_trend")
         /\ Len(Velocities(result.sprint_details)) >= 2) =>
        LET v == Velocities(result.sprint_details)
            n == Len(v)
            recent == v[1] + v[2]
            older == v[n - 1] + v[n]
            trend == result.velocity_trend
        IN /\ \A i, j \in 1..Len(result.sprint_details) :
                  i < j => result.sprint_details[i].start_date[1]
                               >= result.sprint_details[j].start_date[1]
           /\ (trend.direction = "UP") <=> (recent > older)
           /\ (trend.direction = "DOWN") <=> (recent < older)
           /\ (trend.direction = "STABLE") <=> (recent = older)
           /\ trend.percentage_change =
                  IF older = 0 THEN 0
                  ELSE RoundTenths(Frac((recent - older) * 100, older))

\* C9 witness: the older mean is 0 and the recent one is not: UP with 0 %.
C9_Witness ==
    /\ Returned("analyze_velocity_trend")
    /\ Len(Velocities(result.sprint_details)) >= 3
    /\ LET v == Velocities(result.sprint_details)
       IN v[Len(v) - 1] + v[Len(v)] = 0 /\ v[1] + v[2] > 0
    /\ result.velocity_trend.direction = "UP"
    /\ result.velocity_trend.percentage_change = 0

\* the mean, in tenths, of the velocities of the sprints of a result that
\* satisfy Pick, in the metric of the result
MeanVelocity(Pick(_)) ==
    LET picked == {i \in 1..Len(result.sprint_details) :
                      Pick(result.sprint_details[i])}
        v == [i \in 1..Len(result.sprint_details) |->
                 IF ~Pick(result.sprint_details[i]) THEN 0
                 ELSE IF result.velocity_trend.uses_story_points
                 THEN result.sprint_details[i].story_points.velocity
                 ELSE result.sprint_details[i].issue_throughput.velocity]
    IN IF picked = {} THEN 0
       ELSE RoundTenths(Frac(SumSeq(v), Cardinality(picked)))

AnySprint(sprint_data) == TRUE

UsesStoryPointsIn(sprint_data) == sprint_data.uses_story_points

\* some sprint of the window of the current request has an issue with points
SomeSprintHasPoints ==
    LET window == TargetSprints(board, request.sprint_count)
    IN \E k \in 1..Len(window) : \E i \in 1..Len(window[k].issues) :
           /\ window[k].issues[i].story_points # None
           /\ window[k].issues[i].story_points[1] > 0

\* C10 as stated: the trend is point-based exactly when some analyzed sprint
\* has an issue with story points, and average_velocity is the mean of the
\* chosen-metric velocity over all analyzed sprints.
C10_AverageOverAllSprints ==
    Returned("analyze_velocity_trend") =>
        /\ result.velocity_trend.uses_story_points <=> SomeSprintHasPoints
        /\ result.velocity_trend.average_velocity = MeanVelocity(AnySprint)

\* C10 amended: a returned trend is point-based exactly when some analyzed
\* sprint has an issue with story points; a point-based trend takes its
\* velocity values, and average_velocity, from the sprints that have such
\* an issue only, a count-based one from every analyzed sprint.
C10_AverageOverContributingSprints ==
    Returned("analyze_velocity_trend") =>
        /\ result.velocity_trend.uses_story_points <=> SomeSprintHasPoints
        /\ (result.velocity_trend.metric_type = "story_points")
               <=> SomeSprintHasPoints
        /\ result.velocity_trend.average_velocity =
               IF result.velocity_trend.uses_story_points
               THEN MeanVelocity(UsesStoryPointsIn)
               ELSE MeanVelocity(AnySprint)
        /\ Len(Velocities(result.sprint_details)) =
               IF result.velocity_trend.uses_story_points
               THEN Cardinality({i \in 1..Len(result.sprint_details) :
                                    result.sprint_details[i].uses_story_points})
               ELSE result.sprints_analyzed

\* C10 witness: a point-based window with a sprint without points; its
\* average differs from the mean over all analyzed sprints.
C10_Witness ==
    /\ Returned("analyze_velocity_trend")
    /\ result.velocity_trend.uses_story_points
    /\ \E i \in 1..Len(result.sprint_details) :
           ~result.sprint_details[i].uses_story_points
    /\ result.velocity_trend.average_velocity # MeanVelocity(AnySprint)

(***************************************************************************)
(* The sprint of the current request, read issue by issue.                 *)
(***************************************************************************)
IssuesOfPriority(names) ==
    {i \in DOMAIN sprint_issues : PriorityOf(sprint_issues[i]) \in names}

IssuesInProgress ==
    {i \in DOMAIN sprint_issues :
        /\ sprint_issues[i].status_category \notin DoneCategories
        /\ sprint_issues[i].status_category \in InProgressCategories}

IssuesDone ==
    {i \in DOMAIN sprint_issues :
        sprint_issues[i].status_category \in DoneCategories}

IssuesOf(assignee) ==
    {i \in DOMAIN sprint_issues : AssigneeOf(sprint_issues[i]) = assignee}

TeamMembers ==
    {AssigneeOf(sprint_issues[i]) : i \in DOMAIN sprint_issues} \ {"Unassigned"}

CriticalIdle ==
    /\ IssuesOfPriority({"Critical"}) # {}
    /\ IssuesOfPriority({"Critical"}) \cap IssuesInProgress = {}

SomeMemberOverloaded == \E a \in TeamMembers : Cardinality(IssuesOf(a)) >= 13

SomeMemberOverWip ==
    \E a \in TeamMembers : Cardinality(IssuesOf(a) \cap IssuesInProgress) > 2

LowFocus == Cardinality(IssuesOfPriority(HighPriorityNames)) * 2 < Len(sprint_issues)

DashboardReturned == Returned("sprint_health_dashboard") /\ sprint_issues # <<>>

\* C11: the dashboard's overall risk is HIGH if the commitment status is
\* OVERCOMMITTED or SEVERELY_OVERCOMMITTED, or a Critical issue exists and no
\* Critical issue is in progress, or an assignee other than Unassigned has 13
\* or more issues; otherwise MEDIUM if an assignee other than Unassigned has
\* more than 2 issues in progress or fewer than half of the issues are high
\* priority; otherwise LOW.
C11_OverallRiskEscalates ==
    DashboardReturned =>
        result.overall_health.risk_level =
            IF \/ result.overall_health.commitment_status
                      \in {"OVERCOMMITTED", "SEVERELY_OVERCOMMITTED"}
               \/ CriticalIdle
               \/ SomeMemberOverloaded
            THEN "HIGH"
            ELSE IF SomeMemberOverWip \/ LowFocus THEN "MEDIUM"
            ELSE "LOW"

\* a member with 13 issues, more than 2 of them in progress: HIGH although a
\* MEDIUM condition holds as well
C11_Witness ==
    /\ DashboardReturned
    /\ SomeMemberOverloaded
    /\ SomeMemberOverWip
    /\ result.overall_health.commitment_status \in {"ON_TRACK", "AT_RISK"}
    /\ ~CriticalIdle
    /\ result.overall_health.risk_level = "HIGH"

\* the place of each dashboard recommendation in the claimed order
RecommendationRank(message) ==
    CASE message = "CRITICAL: Immediately reduce sprint scope" -> 1
      [] message = "Consider reducing sprint scope or extending timeline" -> 1
      [] message = "Redistribute work from overloaded members" -> 2
      [] message = "Address WIP violations" -> 3
      [] message = "Start working on critical items immediately" -> 4
      [] message = "Increase focus on high-priority items in this sprint" -> 5
      [] message = "Sprint health looks good - maintain current approach" -> 6
      [] OTHER -> 0

Listed(recommendations, message) ==
    \E i \in DOMAIN recommendations : recommendations[i] = message

\* C12: key_recommendations lists, in this order, the commitment entry (at
\* most one), the workload entry, the WIP entry, the critical-not-started
\* entry and the priority-focus entry, each exactly when its rule fires, and
\* the 'healthy' message exactly when no rule fires; it is never empty.
C12_RecommendationOrder ==
    DashboardReturned =>
        LET recs == result.key_recommendations
            status == result.overall_health.commitment_status
            none_fires ==
                /\ status \notin {"OVERCOMMITTED", "SEVERELY_OVERCOMMITTED"}
                /\ ~SomeMemberOverloaded
                /\ ~SomeMemberOverWip
                /\ ~CriticalIdle
                /\ ~LowFocus
        IN /\ recs # <<>>
           /\ \A i \in DOMAIN recs : RecommendationRank(recs[i]) \in 1..6
           /\ \A i, j \in DOMAIN recs :
                  i < j => RecommendationRank(recs[i]) < RecommendationRank(recs[j])
           /\ Listed(recs, "CRITICAL: Immediately reduce sprint scope")
                  <=> status = "SEVERELY_OVERCOMMITTED"
           /\ Listed(recs, "Consider reducing sprint scope or extending timeline")
                  <=> status = "OVERCOMMITTED"
           /\ Listed(recs, "Redistribute work from overloaded members")
                  <=> SomeMemberOverloaded
           /\ Listed(recs, "Address WIP violations") <=> SomeMemberOverWip
           /\ Listed(recs, "Start working on critical items immediately")
                  <=> CriticalIdle
           /\ Listed(recs, "Increase focus on high-priority items in this sprint")
                  <=> LowFocus
           /\ Listed(recs, "Sprint health looks good - maintain current approach")
                  <=> none_fires

\* all five rules fire at once
C12_Witness ==
    /\ DashboardReturned
    /\ SomeMemberOverloaded
    /\ SomeMemberOverWip
    /\ CriticalIdle
    /\ LowFocus
    /\ Len(result.key_recommendations) = 5

DashboardSections ==
    {"overall_health", "commitment_summary", "priority_summary", "team_summary",
     "key_recommendations", "detailed_breakdowns"}

\* C13: for an empty sprint the dashboard returns only an error message and
\* the sprint's id, name and state, with no commitment, priority, workload,
\* risk or recommendation field; for every non-empty sprint it returns the
\* full dashboard.
C13_EmptySprintShortCircuit ==
    Returned("sprint_health_dashboard") =>
        IF sprint_issues = <<>>
        THEN /\ DOMAIN result = {"tool", "outcome", "error", "sprint_info"}
             /\ DOMAIN result.sprint_info = {"id", "name", "state"}
        ELSE /\ DashboardSections \subseteq DOMAIN result
             /\ "error" \notin DOMAIN result

C13_Witness ==
    /\ Returned("sprint_health_dashboard")
    /\ sprint_issues = <<>>
    /\ result.error = "No issues found in sprint"

AllAssignees == {AssigneeOf(sprint_issues[i]) : i \in DOMAIN sprint_issues}

WorkloadReturned == Returned("analyze_team_workload")

\* C14: every assignee of the workload output, Unassigned included, has the
\* load level of their issue count n alone: OVERLOADED for n >= 13, HIGH for
\* 9..12, NORMAL for 5..8, LIGHT for n <= 4.
C14_LoadLevelByCount ==
    WorkloadReturned =>
        /\ DOMAIN result.individual_workloads = AllAssignees
        /\ \A a \in AllAssignees :
              LET n == Cardinality(IssuesOf(a))
                  level == result.individual_workloads[a].load_level
              IN /\ n >= 13 => level = "OVERLOADED"
                 /\ n \in 9..12 => level = "HIGH"
                 /\ n \in 5..8 => level = "NORMAL"
                 /\ n <= 4 => level = "LIGHT"

\* one assignee exactly at 13 issues and another at 4
C14_Witness ==
    /\ WorkloadReturned
    /\ \E a, b \in AllAssignees :
          /\ Cardinality(IssuesOf(a)) = 13
          /\ result.individual_workloads[a].load_level = "OVERLOADED"
          /\ Cardinality(IssuesOf(b)) = 4
          /\ result.individual_workloads[b].load_level = "LIGHT"

MemberCounts == {Cardinality(IssuesOf(a)) : a \in TeamMembers}

AssignedIssues ==
    {i \in DOMAIN sprint_issues : AssigneeOf(sprint_issues[i]) # "Unassigned"}

\* C15: sprint_failure_risk is HIGH if an assignee other than Unassigned is
\* OVERLOADED, else MEDIUM if one is at HIGH load or has WIP violations, else
\* LOW; Unassigned is in none of the member lists, and the average, maximum
\* and minimum issues per person are taken over the other assignees only.
C15_FailureRiskExcludesUnassigned ==
    WorkloadReturned =>
        LET risks == result.immediate_risks
            stats == result.distribution_statistics
            loads == result.individual_workloads
        IN /\ risks.sprint_failure_risk =
                 IF \E a \in TeamMembers : Cardinality(IssuesOf(a)) >= 13
                 THEN "HIGH"
                 ELSE IF \E a \in TeamMembers :
                            \/ Cardinality(IssuesOf(a)) \in 9..12
                            \/ loads[a].wip_violations # <<>>
                 THEN "MEDIUM"
                 ELSE "LOW"
           /\ ~Listed(risks.overloaded_members, "Unassigned")
           /\ ~Listed(risks.high_load_members, "Unassigned")
           /\ ~Listed(risks.wip_violators, "Unassigned")
           /\ result.team_workload_summary.total_team_members =
                 Cardinality(TeamMembers)
           /\ IF TeamMembers = {}
              THEN /\ stats.average_issues_per_person = 0
                   /\ stats.max_issues_per_person = 0
                   /\ stats.min_issues_per_person = 0
              ELSE /\ stats.average_issues_per_person =
                         RoundTenths(Frac(Cardinality(AssignedIssues),
                                          Cardinality(TeamMembers)))
                   /\ stats.max_issues_per_person = MaxOf(MemberCounts)
                   /\ stats.min_issues_per_person = MinOf(MemberCounts)

\* 13 or more unassigned issues, several of them in progress, beside a member
\* with fewer than 9 issues and none in progress: the risk stays LOW
C15_Witness ==
    /\ WorkloadReturned
    /\ Cardinality(IssuesOf("Unassigned")) >= 13
    /\ Cardinality(IssuesOf("Unassigned") \cap IssuesInProgress) > 2
    /\ TeamMembers # {}
    /\ result.immediate_risks.sprint_failure_risk = "LOW"
    /\ result.distribution_statistics.max_issues_per_person < 9

HighPriorityCount == Cardinality(IssuesOfPriority(HighPriorityNames))

FocusReturned == Returned("analyze_priority_focus")

\* C16: high_priority_percentage is the number of Critical, Highest and High
\* issues over the number of all issues of the sprint, times 100, and 0 for a
\* sprint with no issues; the focus score is HIGH at 60 percent or more,
\* MEDIUM from 40 up to 60, LOW below 40.
C16_FocusScoreThresholds ==
    FocusReturned =>
        LET h == HighPriorityCount
            n == Len(sprint_issues)
            focus == result.priority_focus_analysis.high_priority_focus
            score == result.priority_gap_analysis.focus_score
        IN /\ focus.high_priority_issues_in_sprint = h
           /\ focus.total_sprint_issues = n
           /\ focus.high_priority_percentage =
                 IF n = 0 THEN 0 ELSE RoundTenths(Frac(h * 100, n))
           /\ score = IF n > 0 /\ h * 100 >= 60 * n THEN "HIGH"
                      ELSE IF n > 0 /\ h * 100 >= 40 * n THEN "MEDIUM"
                      ELSE "LOW"

\* exactly 60 percent of a sprint is high priority
C16_Witness ==
    /\ FocusReturned
    /\ Len(sprint_issues) > 0
    /\ HighPriorityCount * 100 = 60 * Len(sprint_issues)
    /\ result.priority_gap_analysis.focus_score = "HIGH"

CommitmentReturned == Returned("analyze_sprint_commitment")

\* C17: in the primary metric remaining_work is total_committed minus
\* completed and work_not_started is remaining_work minus work_in_progress,
\* so work_not_started is the todo amount of the primary metric, and neither
\* value is negative.
C17_RemainingWork ==
    CommitmentReturned =>
        LET commitment == result.commitment_analysis
        IN /\ commitment.remaining_work =
                 PrimaryTotals.total_committed - PrimaryTotals.completed
           /\ commitment.work_in_progress = PrimaryTotals.in_progress
           /\ commitment.work_not_started =
                 commitment.remaining_work - commitment.work_in_progress
           /\ commitment.work_not_started = PrimaryTotals.todo
           /\ commitment.remaining_work >= 0
           /\ commitment.work_not_started >= 0

\* a point-based sprint with work in progress and work not started, whose
\* point totals differ from its issue counts
C17_Witness ==
    /\ CommitmentReturned
    /\ result.velocity_metrics.uses_story_points
    /\ result.commitment_analysis.work_in_progress > 1
    /\ result.commitment_analysis.work_not_started > 1
    /\ result.commitment_analysis.remaining_work
           # result.velocity_metrics.issue_throughput.total_committed
               - result.velocity_metrics.issue_throughput.completed

\* C18: the sprint_health risk level follows the primary completion rate r:
\* LOW for r >= 70, MEDIUM for 50 <= r < 70, HIGH for r < 50, and is_on_track
\* holds exactly for LOW; hence ON_TRACK comes with LOW only,
\* SEVERELY_OVERCOMMITTED with HIGH only, AT_RISK with LOW or MEDIUM, and
\* OVERCOMMITTED with MEDIUM or HIGH.
C18_RiskLevelScale ==
    CommitmentReturned =>
        LET t == PrimaryTotals.total_committed
            c == IF t > 0 THEN PrimaryTotals.completed ELSE 0
            d == IF t > 0 THEN t ELSE 1
            status == result.commitment_analysis.status
            risk == result.sprint_health.risk_level
        IN /\ risk = IF c * 100 >= 70 * d THEN "LOW"
                     ELSE IF c * 100 >= 50 * d THEN "MEDIUM"
                     ELSE "HIGH"
           /\ result.sprint_health.is_on_track <=> risk = "LOW"
           /\ status = "ON_TRACK" => risk = "LOW"
           /\ status = "SEVERELY_OVERCOMMITTED" => risk = "HIGH"
           /\ status = "AT_RISK" => risk \in {"LOW", "MEDIUM"}
           /\ status = "OVERCOMMITTED" => risk \in {"MEDIUM", "HIGH"}

StatusWithRisk(status, risk) ==
    /\ CommitmentReturned
    /\ result.commitment_analysis.status = status
    /\ result.sprint_health.risk_level = risk

\* a sprint exactly 70 percent complete is AT_RISK with risk LOW
C18_Witness ==
    /\ StatusWithRisk("AT_RISK", "LOW")
    /\ PrimaryTotals.completed * 100 = 70 * PrimaryTotals.total_committed

\* the other three mixed pairs of the two scales
C18_AtRiskMedium == StatusWithRisk("AT_RISK", "MEDIUM")

C18_OvercommittedMedium == StatusWithRisk("OVERCOMMITTED", "MEDIUM")

C18_OvercommittedHigh == StatusWithRisk("OVERCOMMITTED", "HIGH")

\* C19: when a fetch of analyze_velocity_trend fails (the sprint list or the
\* issue search of any sprint of the window, also after earlier sprints were
\* aggregated) the call ends with the error and no analysis; an analysis
\* exists only once the issues of every sprint of the window were fetched.
C19_FetchFailureEndsInError ==
    \A c \in Workers :
        calls[c].tool = "analyze_velocity_trend" =>
            /\ calls[c].fetch_failed # 0 =>
                  /\ calls[c].pc = "done"
                  /\ calls[c].result = HTTPError("analyze_velocity_trend")
            /\ calls[c].result # NoResult => calls[c].pc = "done"
            /\ (calls[c].pc = "done" /\ calls[c].result.outcome = "ok") =>
                  /\ calls[c].fetch_failed = 0
                  /\ calls[c].position = Len(calls[c].window)
                  /\ Len(calls[c].velocity_data) = Len(calls[c].window)
                  /\ calls[c].result.sprints_analyzed = Len(calls[c].window)

\* the issue search of the third sprint fails after two sprints were
\* aggregated
C19_Witness ==
    \E c \in Workers :
        /\ calls[c].tool = "analyze_velocity_trend"
        /\ calls[c].fetch_failed = 4
        /\ Len(calls[c].velocity_data) = 2
        /\ calls[c].result.outcome = "error"

\* the result of a tool run alone on a snapshot
RunAlone(tool_name, issues) ==
    CASE tool_name = "analyze_sprint_commitment" -> SprintCommitment(issues)
      [] tool_name = "analyze_team_workload" -> TeamWorkload(issues)
      [] tool_name = "sprint_health_dashboard" -> HealthDashboard(issues)

\* C20: however the steps of concurrent analyzer calls interleave, and
\* whatever ran before, the result of every call is the result of running
\* its tool alone on the snapshot the call fetched.
C20_ResultsAsIfAlone ==
    \A c \in Workers :
        (calls[c].pc = "done" /\ calls[c].fetch_failed = 0) =>
            calls[c].result = RunAlone(calls[c].tool, calls[c].issues)

\* one worker has returned the analysis of one snapshot while the other is
\* in the middle of its loop over a different snapshot, with the same tool
C20_Witness ==
    \E c, d \in Workers :
        /\ calls[c].pc = "done"
        /\ calls[c].fetch_failed = 0
        /\ calls[c].issues # <<>>
        /\ calls[d].pc = "loop"
        /\ calls[d].position > 0
        /\ calls[d].position < Len(calls[d].issues)
        /\ calls[d].tool = calls[c].tool
        /\ calls[d].issues # calls[c].issues
        /\ calls[c].result = RunAlone(calls[c].tool, calls[c].issues)

\* what analyze_priority_focus recommends for the sprint of the request
FocusRecommendations ==
    PriorityFocus(SearchIssues(sprint_issues),
                  SearchIssues(backlog_issues)).recommendations

CriticalUntouched ==
    /\ IssuesOfPriority({"Critical"}) # {}
    /\ IssuesOfPriority({"Critical"}) \cap IssuesInProgress = {}
    /\ IssuesOfPriority({"Critical"}) \cap IssuesDone = {}

\* C21: on the same sprint the dashboard's critical-not-started rule
\* ('Critical items not being worked on', with its recommendation) fires
\* exactly when analyze_priority_focus recommends 'Critical items in sprint
\* are not being actively worked on', that is when Critical issues exist in
\* the sprint with none in progress and none completed.
C21_CriticalRuleAgrees ==
    DashboardReturned =>
        /\ Listed(result.overall_health.health_risks,
                  "Critical items not being worked on")
              <=> Listed(FocusRecommendations,
                         "Critical items in sprint are not being actively worked on")
        /\ Listed(result.overall_health.health_risks,
                  "Critical items not being worked on") <=> CriticalUntouched
        /\ Listed(result.key_recommendations,
                  "Start working on critical items immediately")
              <=> CriticalUntouched

InProgressOf(assignee) == IssuesOf(assignee) \cap IssuesInProgress

\* C22: after the loop of analyze_team_workload every assignee's
\* wip_violations holds, in snapshot order, each of their in-progress issues
\* except the first, so its length is max(0, in_progress_count - 1) and no
\* Done or Todo issue is in it; an assignee other than Unassigned is a
\* team-level WIP violator from 2 issues in progress, while the 'WIP
\* violation' risk factor needs more than 2.
C22_WipViolations ==
    WorkloadReturned =>
        \A a \in AllAssignees :
            LET load == result.individual_workloads[a]
                doing == InProgressOf(a)
                n == Cardinality(doing)
                listed == {load.wip_violations[i] : i \in DOMAIN load.wip_violations}
            IN /\ load.in_progress_count = n
               /\ Len(load.wip_violations) = IF n > 0 THEN n - 1 ELSE 0
               /\ listed \subseteq doing
               /\ \A i \in doing : i \in listed <=> \E j \in doing : j < i
               /\ \A i, j \in DOMAIN load.wip_violations :
                      i < j => load.wip_violations[i] < load.wip_violations[j]
               /\ a # "Unassigned" =>
                      (Listed(result.immediate_risks.wip_violators, a) <=> n >= 2)
               /\ Listed(load.risk_factors, "WIP violation") <=> n > 2

\* a member with exactly 2 issues in progress: a team-level violator without
\* the risk factor
C22_Witness ==
    /\ WorkloadReturned
    /\ \E a \in TeamMembers :
          /\ Cardinality(InProgressOf(a)) = 2
          /\ Cardinality(IssuesOf(a)) > 2
          /\ Len(result.individual_workloads[a].wip_violations) = 1
          /\ Listed(result.immediate_risks.wip_violators, a)
          /\ ~Listed(result.individual_workloads[a].risk_factors, "WIP violation")

\* the place of each priority-focus recommendation in the claimed order
FocusRank(message) ==
    CASE message = "Consider adding critical items from backlog" -> 1
      [] message = "Sprint has low focus on high-priority items" -> 2
      [] message = "Critical items in sprint are not being actively worked on" -> 3
      [] message = "Good focus on high-priority items" -> 4
      [] OTHER -> 0

\* the Critical issues a backlog search would return
CriticalInBacklog ==
    Cardinality({i \in DOMAIN backlog_issues :
                    PriorityOf(backlog_issues[i]) = "Critical"})

\* C23: analyze_priority_focus lists, in this order and each exactly when its
\* own condition holds: the backlog entry (critical backlog count > 0), the
\* low-focus entry (high-priority percentage < 50), the critical-not-worked
\* entry (Critical issues in the sprint, none in progress, none completed)
\* and the good-focus entry (percentage >= 70).  For an empty sprint no
\* backlog is fetched: the critical backlog count is 0, critical coverage is
\* GOOD and the low-focus entry is the only recommendation.
C23_FocusRecommendations ==
    FocusReturned =>
        LET recs == result.recommendations
            h == HighPriorityCount
            n == Len(sprint_issues)
            fetched == IF sprint_issues = <<>> THEN 0 ELSE CriticalInBacklog
            gap == result.priority_gap_analysis
        IN /\ \A i \in DOMAIN recs : FocusRank(recs[i]) \in 1..4
           /\ \A i, j \in DOMAIN recs :
                  i < j => FocusRank(recs[i]) < FocusRank(recs[j])
           /\ Listed(recs, "Consider adding critical items from backlog")
                  <=> fetched > 0
           /\ Listed(recs, "Sprint has low focus on high-priority items")
                  <=> h * 100 < 50 * n \/ n = 0
           /\ Listed(recs, "Critical items in sprint are not being actively worked on")
                  <=> CriticalUntouched
           /\ Listed(recs, "Good focus on high-priority items")
                  <=> (n > 0 /\ h * 100 >= 70 * n)
           /\ gap.missed_critical_items = fetched
           /\ gap.critical_coverage = "GOOD"
                  <=> Cardinality(IssuesOfPriority({"Critical"})) >= fetched
           /\ sprint_issues = <<>> =>
                  /\ fetched = 0
                  /\ gap.critical_coverage = "GOOD"
                  /\ recs = <<"Sprint has low focus on high-priority items">>

\* an empty sprint beside a backlog that holds a Critical issue
C23_Witness ==
    /\ FocusReturned
    /\ sprint_issues = <<>>
    /\ CriticalInBacklog > 0
    /\ result.priority_gap_analysis.missed_critical_items = 0
    /\ result.recommendations = <<"Sprint has low focus on high-priority items">>

\* three rules fire together: backlog, low focus, critical not worked on
C23_ThreeRulesFire ==
    /\ FocusReturned
    /\ Len(result.recommendations) = 3

NoRisks == <<"No major risks identified">>

HealthyAdvice == <<"Sprint health looks good - maintain current approach">>

\* C24: in every full dashboard the overall risk is LOW exactly when
\* health_risks is the single entry 'No major risks identified' and exactly
\* when key_recommendations is the single 'healthy' message; with risk
\* MEDIUM or HIGH at least one concrete risk and one concrete recommendation
\* are listed.
C24_SummariesAgree ==
    DashboardReturned =>
        LET risk == result.overall_health.risk_level
            risks == result.overall_health.health_risks
            recs == result.key_recommendations
        IN /\ risk \in {"LOW", "MEDIUM", "HIGH"}
           /\ risk = "LOW" <=> risks = NoRisks
           /\ risk = "LOW" <=> recs = HealthyAdvice
           /\ risk # "LOW" =>
                  /\ risks # <<>>
                  /\ ~Listed(risks, NoRisks[1])
                  /\ recs # <<>>
                  /\ ~Listed(recs, HealthyAdvice[1])

\* a sprint of several issues without any risk
C24_Witness ==
    /\ DashboardReturned
    /\ Len(sprint_issues) > 2
    /\ result.overall_health.risk_level = "LOW"
    /\ result.overall_health.health_risks = NoRisks
    /\ result.key_recommendations = HealthyAdvice

\* a sprint at risk MEDIUM
C24_MediumRisk ==
    /\ DashboardReturned
    /\ result.overall_health.risk_level = "MEDIUM"

\* what analyze_sprint_commitment reports for the sprint of the request
CommitmentOfSprint == SprintCommitment(SearchIssues(sprint_issues))

CommitmentPrimary ==
    IF CommitmentOfSprint.velocity_metrics.uses_story_points
    THEN CommitmentOfSprint.velocity_metrics.story_points
    ELSE CommitmentOfSprint.velocity_metrics.issue_throughput

\* C25: for every non-empty sprint the dashboard reports the same
\* uses_story_points flag, completion rate, commitment status and
\* is_overcommitted flag, and the same total, completed and in-progress work,
\* as analyze_sprint_commitment reports for the sprint's primary metric.
C25_DashboardMatchesCommitment ==
    DashboardReturned =>
        LET summary == result.commitment_summary
            health == result.overall_health
            commitment == CommitmentOfSprint.commitment_analysis
        IN /\ summary.uses_story_points
                  = CommitmentOfSprint.velocity_metrics.uses_story_points
           /\ summary.completion_rate = commitment.completion_rate
           /\ health.completion_rate = commitment.completion_rate
           /\ health.commitment_status = commitment.status
           /\ summary.is_overcommitted = commitment.is_overcommitted
           /\ summary.total_work = CommitmentPrimary.total_committed
           /\ summary.completed_work = CommitmentPrimary.completed
           /\ summary.in_progress_work = CommitmentPrimary.in_progress
           /\ summary.in_progress_work = commitment.work_in_progress

\* a point-based sprint whose point rate differs from its issue rate
C25_Witness ==
    /\ DashboardReturned
    /\ result.commitment_summary.uses_story_points
    /\ result.commitment_summary.completed_work > 0
    /\ result.commitment_summary.in_progress_work > 0
    /\ result.commitment_summary.total_work # Len(sprint_issues)
    /\ result.commitment_summary.completion_rate
           # CommitmentOfSprint.velocity_metrics.issue_throughput.completion_rate
    /\ result.overall_health.commitment_status
           = CommitmentOfSprint.commitment_analysis.status

====
